---- MODULE Spec2Model ----
(***************************************************************************)
(* Model of the container build pipeline of DockGenAI-backend:             *)
(* ContainerBuildEngine.buildImage and createFallbackBuild, together with  *)
(* the file system, the external builder and its image store.              *)
(*                                                                         *)
(* Text (build files, diagnostic streams, messages, file contents) is a    *)
(* sequence of tokens; a path is the sequence of its segments.             *)
(***************************************************************************)
EXTENDS Integers, Sequences, FiniteSets, TLC

\* ------------------------------------------------------------------ bounds
MaxStderrLen == 3
\* Largest number of times the workspace-assembly steps run on one workspace.
MaxRuns == 2
\* Deepest chain of nested directories a remote repository holds.
MaxTreeDepth == 4

\* --------------------------------------------------------------- constants
BuildTimeoutMs == 300000

\* ------------------------------------------------------------ input domains
Invocations == {"i1", "i2"}
BuildIds == {"b1", "b2"}
UUIDs == {"u1", "u2"}

\* Durations of one builder run, in milliseconds.
Durations == {1000, BuildTimeoutMs + 1}

\* Words the builder can print on its diagnostic stream.
StderrWords == {"ERROR", "Successfully", "built"}

RECURSIVE SeqsUpTo(_, _)
SeqsUpTo(S, n) ==
  IF n = 0 THEN {<<>>}
  ELSE LET shorter == SeqsUpTo(S, n - 1)
       IN shorter \cup {Append(s, x) : s \in {t \in shorter : Len(t) = n - 1}, x \in S}

Stderrs == SeqsUpTo(StderrWords, MaxStderrLen)

\* Build-file texts: the sequence of their directives.
DockerfileTexts == {<<"FROM", "CMD">>, <<"FROM", "RUN">>, <<"RUN", "CMD">>}

\* Manifests are ordered lists of <<key, value>> properties.
RepoManifest == << <<"name", "repo-app">>, <<"version", "2.0.0">> >>

NoRepositoryData == [defined |-> FALSE, hasPackageJson |-> FALSE, packageJson |-> <<>>]
RepositoryDatas ==
  { NoRepositoryData,
    [defined |-> TRUE, hasPackageJson |-> FALSE, packageJson |-> <<>>],
    [defined |-> TRUE, hasPackageJson |-> TRUE, packageJson |-> RepoManifest] }

\* Standard output of the image-store lookup that found the image.
ImageIdLine == <<"abc123", "\n">>

\* ------------------------------------------------------------ text helpers
ErrorMarker == <<"ERROR">>
SuccessMarker == <<"Successfully", "built">>

\* String.prototype.includes: needle occurs as a contiguous part of hay.
Includes(hay, needle) ==
  \E i \in 0..(Len(hay) - Len(needle)) :
    \A j \in 1..Len(needle) : hay[i + j] = needle[j]

IsSpace(c) == c \in {" ", "\n", "\t"}

RECURSIVE TrimStart(_)
TrimStart(s) ==
  IF s = <<>> THEN <<>>
  ELSE IF IsSpace(Head(s)) THEN TrimStart(Tail(s)) ELSE s

RECURSIVE TrimEnd(_)
TrimEnd(s) ==
  IF s = <<>> THEN <<>>
  ELSE IF IsSpace(s[Len(s)]) THEN TrimEnd(SubSeq(s, 1, Len(s) - 1)) ELSE s

\* String.prototype.trim
Trim(s) == TrimEnd(TrimStart(s))

\* -------------------------------------------------------------------- paths
buildDirectory == <<"cwd", "temp">>

PathJoin(dir, name) == Append(dir, name)

\* Variant: every invocation works in one directory of a fixed name.
WorkspacePathFixed(token) == PathJoin(buildDirectory, "build")

\* buildWorkspace: the build root joined with the invocation's uuid.
WorkspacePath(token) == PathJoin(buildDirectory, token)

IsPrefix(a, b) == Len(a) <= Len(b) /\ SubSeq(b, 1, Len(a)) = a

\* ------------------------------------------------------ generated artifacts
fallbackDockerfile ==
  <<"FROM", "WORKDIR", "COPY", "RUN", "COPY", "EXPOSE", "CMD">>

dockerignoreContent == <<"node_modules", ".git", "dist", "build", "*.log">>

indexJsContent == <<"express", "/health", "/", "listen", "SIGTERM", "SIGINT">>

DefaultManifest ==
  << <<"name", "dockgen-test">>, <<"version", "1.0.0">>,
     <<"main", "index.js">>, <<"scripts.start", "node index.js">>,
     <<"scripts.dev", "node index.js">>, <<"dependencies.express", "^4.18.2">>,
     <<"engines.node", ">=18.0.0">> >>

\* Variant: the caller's manifest is merged into the default manifest.
createPackageJsonMerged(repositoryData) ==
  IF repositoryData.defined /\ repositoryData.hasPackageJson
  THEN DefaultManifest \o repositoryData.packageJson
  ELSE DefaultManifest

createPackageJson(repositoryData) ==
  IF repositoryData.defined /\ repositoryData.hasPackageJson
  THEN repositoryData.packageJson
  ELSE DefaultManifest

RECURSIVE JsonProperties(_)
JsonProperties(m) ==
  IF m = <<>> THEN <<>>
  ELSE <<Head(m)[1], ":", Head(m)[2]>>
       \o (IF Len(m) > 1 THEN <<",">> ELSE <<>>)
       \o JsonProperties(Tail(m))

\* JSON.stringify(manifest, null, 2)
JsonStringify(m) == <<"{">> \o JsonProperties(m) \o <<"}">>

JsonPunctuation == {"{", "}", "[", "]", ":", ","}
JsonSyntaxError == [ok |-> FALSE, value |-> <<>>]
NotSpace(c) == ~IsSpace(c)

RECURSIVE JsonMembers(_)
JsonMembers(t) ==
  IF Len(t) < 3 THEN JsonSyntaxError
  ELSE IF t[2] # ":" \/ t[1] \in JsonPunctuation \/ t[3] \in JsonPunctuation
  THEN JsonSyntaxError
  ELSE IF Len(t) = 3 THEN [ok |-> TRUE, value |-> << <<t[1], t[3]>> >>]
  ELSE IF t[4] # "," THEN JsonSyntaxError
  ELSE LET rest == JsonMembers(SubSeq(t, 5, Len(t)))
       IN IF rest.ok
          THEN [ok |-> TRUE, value |-> << <<t[1], t[3]>> >> \o rest.value]
          ELSE JsonSyntaxError

JsonObject(t) ==
  IF Len(t) < 2 THEN JsonSyntaxError
  ELSE IF t[1] # "{" \/ t[Len(t)] # "}" THEN JsonSyntaxError
  ELSE IF Len(t) = 2 THEN [ok |-> TRUE, value |-> <<>>]
  ELSE JsonMembers(SubSeq(t, 2, Len(t) - 1))

\* JSON.parse of an object or of an array holding one object; white space
\* between the tokens is skipped, anything else is a SyntaxError.
JsonParse(text) ==
  LET t == SelectSeq(text, NotSpace)
  IN IF Len(t) >= 2 /\ t[1] = "[" /\ t[Len(t)] = "]"
     THEN IF Len(t) = 2 THEN [ok |-> TRUE, value |-> <<>>]
          ELSE LET o == JsonObject(SubSeq(t, 2, Len(t) - 1))
               IN IF o.ok THEN [ok |-> TRUE, value |-> <<o.value>>]
                  ELSE JsonSyntaxError
     ELSE JsonObject(t)

\* String.prototype.split('\n')
RECURSIVE SplitLines(_)
SplitLines(text) ==
  IF \A i \in 1..Len(text) : text[i] # "\n" THEN <<text>>
  ELSE LET i == CHOOSE k \in 1..Len(text) :
                  /\ text[k] = "\n"
                  /\ \A j \in 1..(k - 1) : text[j] # "\n"
       IN <<SubSeq(text, 1, i - 1)>> \o SplitLines(SubSeq(text, i + 1, Len(text)))

\* The naming prefix of this system's images.
NamingPrefix == <<"dockgen-ai">>

\* Variant: the tag is made of the prefix and a fixed word.
ImageNameFixed(buildId) == NamingPrefix \o <<"-", "build", ":latest">>

\* `dockgen-ai-${buildId}:latest`
ImageName(buildId) == NamingPrefix \o <<"-", buildId, ":latest">>

\* ---------------------------------------------------------------- validator
validateDockerfile(text) ==
  LET errors == IF Includes(text, <<"FROM">>) THEN <<>>
                ELSE <<"Dockerfile must contain a FROM instruction">>
      warnings == IF Includes(text, <<"CMD">>) THEN <<>>
                  ELSE <<"No CMD or ENTRYPOINT instruction">>
  IN [isValid |-> errors = <<>>,
      errors |-> errors,
      warnings |-> warnings,
      suggestions |-> <<>>]

\* -------------------------------------------------------------------- state
VARIABLES
  callers,      \* invocations of buildImage that the caller makes
  offer,        \* inputs and builder output the run draws from
  ctorPc,       \* constructor's unawaited initializeBuildDirectory
  dirs,         \* directories that exist on disk
  files,        \* path -> content of the regular files on disk
  images,       \* tags present in the builder's image store
  usedUuids,    \* tokens uuidv4 has handed out
  pc,           \* position of each invocation
  args,         \* dockerfileContent, buildId, repositoryData of each invocation
  fbEnv,        \* how the outside world answers the fallback of each invocation
  ws,           \* buildWorkspace of each invocation
  stderr,       \* diagnostic stream of the builder run under examination
  lookupOut,    \* standard output of the last image-store lookup
  lookupTag,    \* tag the last image-store lookup asked for
  err,          \* message of the error caught last
  threw,        \* the stage whose failure was thrown, "none" if none
  cleanupFailed,\* the recursive delete of the workspace failed
  fbResult,     \* value createFallbackBuild returned
  result,       \* value buildImage returned
  trace,        \* stages executed, in order
  touched,      \* <<operation, directory>> pairs each invocation worked on
  registry,     \* the last registry operation and what it returned
  ghPc,         \* position of the running RepositoryDataProvider operation
  ghUrl,        \* repositoryUrl the operation was given
  ghRemote,     \* what the remote repository holds
  ghStack,      \* activations of processRepositoryFiles, innermost last
  ghFiles,      \* list the outermost processRepositoryFiles returned
  ghRequests,   \* HTTP requests made so far, in order
  ghExisting,   \* existingDockerfile of commitDockerfileToRepository
  ghResult      \* value returned or error thrown by the operation

vars == <<callers, offer, ctorPc, dirs, files, images, usedUuids, pc, args, fbEnv, ws,
          stderr, lookupOut, lookupTag, err, threw, cleanupFailed, fbResult, result, trace,
          touched, registry, ghPc, ghUrl, ghRemote, ghStack, ghFiles, ghRequests,
          ghExisting, ghResult>>

ghVars == <<ghPc, ghUrl, ghRemote, ghStack, ghFiles, ghRequests, ghExisting, ghResult>>
fsVars == <<dirs, files>>
lookupVars == <<lookupOut, lookupTag>>
scopeVars == <<callers, offer, registry, ghVars>>
inputVars == <<scopeVars, args, fbEnv, ws, usedUuids>>

NoArgs == [dockerfileContent |-> <<>>, buildId |-> "", repositoryData |-> NoRepositoryData]
Pending == [pending |-> TRUE]
NotLookedUp == <<"<no lookup>">>
Null == <<"null">>
NoGitHubResult == [kind |-> "none"]
NoExisting == [kind |-> "null", sha |-> "undefined"]
NoRemote == [depth |-> 0, manifest |-> <<>>, dockerfile |-> "absent"]

\* No operation of RepositoryDataProvider has been started.
GitHubIdle ==
  /\ ghPc = "idle"
  /\ ghUrl = <<>>
  /\ ghRemote = NoRemote
  /\ ghStack = <<>>
  /\ ghFiles = <<>>
  /\ ghRequests = <<>>
  /\ ghExisting = NoExisting
  /\ ghResult = NoGitHubResult

NoRegistryCall ==
  [op |-> "none", name |-> <<>>, cmdOk |-> TRUE, stdout |-> <<>>, threw |-> FALSE,
   value |-> Null]

\* A builder killed at the timeout exits with a failure, and a builder that
\* exits with a failure leaves no image.
FallbackEnvs ==
  { e \in [writeOk : BOOLEAN, duration : Durations, exitOk : BOOLEAN,
           imageCreated : BOOLEAN, lookupOk : BOOLEAN] :
      /\ (e.duration > BuildTimeoutMs => ~e.exitOk)
      /\ (~e.exitOk => ~e.imageCreated) }
NoFallbackEnv ==
  [writeOk |-> TRUE, duration |-> 1000, exitOk |-> TRUE,
   imageCreated |-> TRUE, lookupOk |-> TRUE]

FallbackLabels == {"fb_write", "fb_build", "fb_verify", "fb_return", "fb_catch"}

\* Directories a caller may find next to the build root before the first call.
InitialDirs ==
  { {}, {buildDirectory}, {buildDirectory, PathJoin(buildDirectory, "b1")} }

\* The image store holds no image of this system before the first call.
InitialImages == {}

\* Everything a single caller can pass and the builder can print.
FullOffer ==
  [texts |-> DockerfileTexts, repositoryDatas |-> RepositoryDatas,
   fallbackEnvs |-> FallbackEnvs, stderrs |-> Stderrs]

\* The inputs of runs with concurrent callers: one accepted and one rejected
\* build file, no repository data, a fallback that succeeds or whose lookup
\* fails, and the two shortest streams with and without the error marker.
ConcurrentOffer ==
  [texts |-> {<<"FROM", "CMD">>, <<"RUN", "CMD">>},
   repositoryDatas |-> {NoRepositoryData},
   fallbackEnvs |-> {NoFallbackEnv, [NoFallbackEnv EXCEPT !.lookupOk = FALSE]},
   stderrs |-> {<<>>, <<"ERROR">>}]

InitWith(cs, o) ==
  /\ callers = cs
  /\ offer = o
  /\ ctorPc = "mkdirPending"
  /\ dirs \in InitialDirs
  /\ files = << >>
  /\ images = InitialImages
  /\ usedUuids = {}
  /\ pc = [p \in Invocations |-> "idle"]
  /\ args = [p \in Invocations |-> NoArgs]
  /\ fbEnv = [p \in Invocations |-> NoFallbackEnv]
  /\ ws = [p \in Invocations |-> <<>>]
  /\ stderr = [p \in Invocations |-> <<>>]
  /\ lookupOut = [p \in Invocations |-> NotLookedUp]
  /\ lookupTag = [p \in Invocations |-> <<>>]
  /\ err = [p \in Invocations |-> <<>>]
  /\ threw = [p \in Invocations |-> "none"]
  /\ cleanupFailed = [p \in Invocations |-> FALSE]
  /\ fbResult = [p \in Invocations |-> Pending]
  /\ result = [p \in Invocations |-> Pending]
  /\ trace = [p \in Invocations |-> <<>>]
  /\ touched = [p \in Invocations |-> {}]
  /\ registry = NoRegistryCall
  /\ GitHubIdle

Init == InitWith({"i1"}, FullOffer)

\* Two callers whose invocations run concurrently.
InitConcurrent == InitWith(Invocations, ConcurrentOffer)

\* The inputs of runs that assemble a workspace repeatedly: every build file
\* and repository descriptor; the builder is never started.
MaterializeOffer ==
  [texts |-> DockerfileTexts, repositoryDatas |-> RepositoryDatas,
   fallbackEnvs |-> {NoFallbackEnv}, stderrs |-> {<<>>}]

InitMaterialize == InitWith({"i1"}, MaterializeOffer)

\* The inputs of runs that compare accepted build files with and without
\* warnings: both kinds and one rejected file, no repository data, a fallback
\* that succeeds, and the two shortest streams.
WarningsOffer ==
  [texts |-> DockerfileTexts, repositoryDatas |-> {NoRepositoryData},
   fallbackEnvs |-> {NoFallbackEnv}, stderrs |-> {<<>>, <<"ERROR">>}]

InitWarnings == InitWith(Invocations, WarningsOffer)

\* ------------------------------------------------------- file system helpers
\* Variant: the access probe always reports the file as missing.
FileExistsNever(path) == FALSE

\* fs.promises.access(filePath) succeeds.
FileExists(path) == path \in DOMAIN files

WriteFile(fs, path, content) == (path :> content) @@ fs

RemoveTree(fs, root) ==
  [q \in {r \in DOMAIN fs : ~IsPrefix(root, r)} |-> fs[q]]

\* Variant: mkdir without the recursive option creates nothing below a
\* missing parent.
MkdirNonRecursive(ds, path) ==
  IF SubSeq(path, 1, Len(path) - 1) \in ds \/ Len(path) <= 2
  THEN ds \cup {path} ELSE ds

\* mkdir(path, { recursive: true }): the path and every missing ancestor
\* below the working directory.
MkdirRecursive(ds, path) ==
  ds \cup {SubSeq(path, 1, n) : n \in 2..Len(path)}

\* ------------------------------------------------------- control-flow helpers
\* Variant: the workspace is created before the try block is entered.
HandlerMkdirOutsideTry(label) ==
  IF label = "mkdir" THEN "escaped"
  ELSE IF label \in FallbackLabels THEN "fb_catch" ELSE "catch"

\* Variant: a workspace that cannot be created sends the call to the fallback.
HandlerMkdirFallsBack(label) ==
  IF label = "mkdir" THEN "fb_write"
  ELSE IF label \in FallbackLabels THEN "fb_catch" ELSE "catch"

\* Variant: a builder run that timed out is started again.
HandlerRetriesBuild(label) ==
  IF label = "build" THEN "build"
  ELSE IF label \in FallbackLabels THEN "fb_catch" ELSE "catch"

\* Variant: a fallback that failed is started again.
HandlerFallbackRestarts(label) ==
  IF label \in FallbackLabels THEN "fb_write" ELSE "catch"

\* Handler of an exception thrown at a stage: the try block around it.
Handler(label) ==
  IF label \in FallbackLabels THEN "fb_catch" ELSE "catch"

Step(p, next) ==
  /\ pc' = [pc EXCEPT ![p] = next]
  /\ trace' = [trace EXCEPT ![p] = Append(@, pc[p])]

Throw(p, stage, message) ==
  /\ pc' = [pc EXCEPT ![p] = Handler(pc[p])]
  /\ trace' = [trace EXCEPT ![p] = Append(@, pc[p])]
  /\ err' = [err EXCEPT ![p] = message]
  /\ threw' = [threw EXCEPT ![p] = stage]

NoThrow == UNCHANGED <<err, threw>>

Touch(p, op, dir) == touched' = [touched EXCEPT ![p] = @ \cup {<<op, dir>>}]

\* docker build -t <tag> . with cwd <dir>
TouchBuild(p, dir, tag) ==
  touched' = [touched EXCEPT ![p] = @ \cup {<<"build", dir>>, <<"tag", tag>>}]

IoError(op, path) == <<"EACCES: permission denied, ", op>> \o path

CommandFailed(imageName) == <<"Command failed: ", "docker build -t ">> \o imageName

LookupFailed(imageName) == <<"Command failed: ", "docker images ">> \o imageName

\* ----------------------------------------------------------- decision points
\* Variant: any error marker fails the build, whatever else the stream says.
ClassifiedFailedOnErrorMarker(s) ==
  /\ s # <<>>
  /\ Includes(s, ErrorMarker)

\* The builder's diagnostic stream is classified as a failed build.
ClassifiedFailed(s) ==
  /\ s # <<>>
  /\ Includes(s, ErrorMarker)
  /\ ~Includes(s, SuccessMarker)

\* Variant: the lookup's output is tested without trimming it.
ImageMissingUntrimmed(out) == out = <<>>

\* The verification lookup found no image.
ImageMissing(out) == Trim(out) = <<>>

\* exec's timeout option kills a builder that runs longer than the bound.
TimedOut(duration) == duration > BuildTimeoutMs

\* Variant: a rejected build file fails the call instead of starting the fallback.
AfterValidationRejects(verdict) ==
  IF ~verdict.isValid THEN "catch" ELSE "writeDockerfile"

\* Variant: the verdict is ignored and the build file is materialized anyway.
AfterValidationIgnored(verdict) == "writeDockerfile"

\* Variant: a verdict with warnings is treated like a rejection.
AfterValidationBlocksOnWarnings(verdict) ==
  IF ~verdict.isValid \/ verdict.warnings # <<>> THEN "fb_write"
  ELSE "writeDockerfile"

\* Variant: an accepted build file goes straight to the builder.
AfterValidationStartsBuilder(verdict) ==
  IF ~verdict.isValid THEN "fb_write" ELSE "build"

\* Where buildImage continues after the validator's verdict.
AfterValidation(verdict) ==
  IF ~verdict.isValid THEN "fb_write" ELSE "writeDockerfile"

\* Variant: cleanupBuildDir lets a failed delete propagate to buildImage.
AfterCleanupPropagates(rmOk) == IF rmOk THEN "returnSuccess" ELSE "catch"

\* Where buildImage continues after cleanupBuildDir, whose own try/catch
\* swallows a failed delete.
AfterCleanup(rmOk) == "returnSuccess"

\* Variant: the cleanup also removes the image it has just verified.
StoreAfterCleanupRemovesImage(store, imageName) == store \ {imageName}

\* The image store after cleanupBuildDir, which removes the workspace
\* directory and nothing else.
StoreAfterCleanup(store, imageName) == store

\* error instanceof Error ? error.message : 'Unknown Docker build error'
FailureResult(message) == [success |-> FALSE, error |-> message]

\* Variant: the success result carries no image name.
SuccessResultWithoutImageId(imageName) == [success |-> TRUE]

SuccessResult(imageName) == [success |-> TRUE, imageId |-> imageName]

FallbackFailureResult(message) ==
  [success |-> FALSE,
   error |-> <<"Both original and fallback builds failed: ">> \o message]

\* Standard output of `docker images <tag> --format "{{.ID}}"`.
LookupAnswers(store, imageName) ==
  IF imageName \in store THEN {ImageIdLine} ELSE {<<>>, <<"\n">>}

\* ------------------------------------------------------------- constructor
initializeBuildDirectory ==
  /\ ctorPc = "mkdirPending"
  /\ ctorPc' = "done"
  /\ \/ dirs' = MkdirRecursive(dirs, buildDirectory)
     \/ dirs' = dirs          \* mkdir failed; the error is only logged
  /\ UNCHANGED <<scopeVars, files, images, usedUuids, pc, args, fbEnv, ws, stderr,
                 lookupVars, err, threw, cleanupFailed, fbResult, result, trace,
                 touched>>

\* --------------------------------------------------------------- buildImage
\* What the fallback would meet is drawn only for a build file that the
\* validator rejects: no other call reaches the fallback.
FallbackEnvsFor(text, envs) ==
  IF validateDockerfile(text).isValid THEN {NoFallbackEnv} ELSE envs

Call(p) ==
  /\ pc[p] = "idle"
  /\ p \in callers
  /\ \E text \in offer.texts, b \in BuildIds, repo \in offer.repositoryDatas,
        u \in UUIDs \ usedUuids :
       \E env \in FallbackEnvsFor(text, offer.fallbackEnvs) :
         /\ args' = [args EXCEPT ![p] = [dockerfileContent |-> text, buildId |-> b,
                                         repositoryData |-> repo]]
         /\ fbEnv' = [fbEnv EXCEPT ![p] = env]
         /\ ws' = [ws EXCEPT ![p] = WorkspacePath(u)]
         /\ usedUuids' = usedUuids \cup {u}
  /\ Step(p, "mkdir")
  /\ NoThrow
  /\ UNCHANGED <<scopeVars, ctorPc, dirs, files, images, stderr, lookupVars,
                 cleanupFailed, fbResult, result, touched>>

Mkdir(p) ==
  /\ pc[p] = "mkdir"
  /\ \/ /\ dirs' = MkdirRecursive(dirs, ws[p])
        /\ Touch(p, "mkdir", ws[p])
        /\ Step(p, "validate")
        /\ NoThrow
     \/ /\ dirs' = dirs
        /\ UNCHANGED touched
        /\ Throw(p, "mkdir", IoError("mkdir ", ws[p]))
  /\ UNCHANGED <<inputVars, ctorPc, files, images, stderr, lookupVars,
                 cleanupFailed, fbResult, result>>

Validate(p) ==
  /\ pc[p] = "validate"
  /\ Step(p, AfterValidation(validateDockerfile(args[p].dockerfileContent)))
  /\ NoThrow
  /\ UNCHANGED <<inputVars, ctorPc, fsVars, images, stderr, lookupVars,
                 cleanupFailed, fbResult, result, touched>>

\* One awaited write of buildImage: the file is written, or the write fails.
WriteStage(p, stage, path, content, next) ==
  /\ pc[p] = stage
  /\ \/ /\ SubSeq(path, 1, Len(path) - 1) \in dirs
        /\ files' = WriteFile(files, path, content)
        /\ Touch(p, "write", SubSeq(path, 1, Len(path) - 1))
        /\ Step(p, next)
        /\ NoThrow
     \/ /\ files' = files
        /\ UNCHANGED touched
        /\ Throw(p, stage, IoError("open ", path))
  /\ UNCHANGED <<inputVars, ctorPc, dirs, images, stderr, lookupVars,
                 cleanupFailed, fbResult, result>>

\* A stage that finds its file present and leaves it alone.
SkipStage(p, stage, next) ==
  /\ pc[p] = stage
  /\ Step(p, next)
  /\ NoThrow
  /\ UNCHANGED <<inputVars, ctorPc, fsVars, images, stderr, lookupVars,
                 cleanupFailed, fbResult, result, touched>>

\* Variant: the build file is written only when the workspace has none.
WriteDockerfileIfAbsent(p) ==
  IF FileExists(PathJoin(ws[p], "Dockerfile"))
  THEN SkipStage(p, "writeDockerfile", "createDockerignore")
  ELSE WriteStage(p, "writeDockerfile", PathJoin(ws[p], "Dockerfile"),
                  args[p].dockerfileContent, "createDockerignore")

WriteDockerfile(p) ==
  WriteStage(p, "writeDockerfile", PathJoin(ws[p], "Dockerfile"),
             args[p].dockerfileContent, "createDockerignore")

createDockerignore(p) ==
  WriteStage(p, "createDockerignore", PathJoin(ws[p], ".dockerignore"),
             dockerignoreContent, "packageJson")

WritePackageJson(p) ==
  IF FileExists(PathJoin(ws[p], "package.json"))
  THEN SkipStage(p, "packageJson", "createSourceFiles")
  ELSE WriteStage(p, "packageJson", PathJoin(ws[p], "package.json"),
                  JsonStringify(createPackageJson(args[p].repositoryData)),
                  "createSourceFiles")

createSourceFiles(p) ==
  IF FileExists(PathJoin(ws[p], "index.js"))
  THEN SkipStage(p, "createSourceFiles", "build")
  ELSE WriteStage(p, "createSourceFiles", PathJoin(ws[p], "index.js"),
                  indexJsContent, "build")

\* docker build in the workspace: killed at the timeout, a failing exit
\* status, or a normal return with a diagnostic stream; the builder's own
\* report does not settle whether the image is in the store.  A stream that
\* is returned is classified before the next await.
ExecBuild(p) ==
  /\ pc[p] = "build"
  /\ TouchBuild(p, ws[p], ImageName(args[p].buildId))
  /\ \E d \in Durations, exitOk \in BOOLEAN, s \in offer.stderrs, created \in BOOLEAN :
       IF TimedOut(d)
       THEN /\ Throw(p, "build_timeout", CommandFailed(ImageName(args[p].buildId)))
            /\ UNCHANGED <<stderr, images>>
       ELSE IF ~exitOk
       THEN /\ Throw(p, "build_exit", CommandFailed(ImageName(args[p].buildId)))
            /\ UNCHANGED <<stderr, images>>
       ELSE /\ images' = IF created THEN images \cup {ImageName(args[p].buildId)}
                         ELSE images
            /\ IF ClassifiedFailed(s)
               THEN /\ Throw(p, "classify", <<"Docker build failed: ">> \o s)
                    /\ UNCHANGED stderr
               ELSE /\ stderr' = [stderr EXCEPT ![p] = s]
                    /\ Step(p, "verify")
                    /\ NoThrow
  /\ UNCHANGED <<inputVars, ctorPc, fsVars, lookupVars, cleanupFailed, fbResult, result>>

Verify(p) ==
  /\ pc[p] = "verify"
  /\ \/ /\ Throw(p, "lookup_exec", LookupFailed(ImageName(args[p].buildId)))
        /\ UNCHANGED lookupVars
     \/ \E out \in LookupAnswers(images, ImageName(args[p].buildId)) :
          /\ lookupOut' = [lookupOut EXCEPT ![p] = out]
          /\ lookupTag' = [lookupTag EXCEPT ![p] = ImageName(args[p].buildId)]
          /\ IF ImageMissing(out)
             THEN Throw(p, "verify_empty",
                        <<"Docker image was not created successfully">>)
             ELSE Step(p, "cleanup") /\ NoThrow
  /\ stderr' = [stderr EXCEPT ![p] = <<>>]
  /\ UNCHANGED <<inputVars, ctorPc, fsVars, images, cleanupFailed,
                 fbResult, result, touched>>

cleanupBuildDir(p) ==
  /\ pc[p] = "cleanup"
  /\ Touch(p, "rm", ws[p])
  /\ \E rmOk \in BOOLEAN :
       /\ IF rmOk
          THEN /\ dirs' = {d \in dirs : ~IsPrefix(ws[p], d)}
               /\ files' = RemoveTree(files, ws[p])
               /\ UNCHANGED <<cleanupFailed, err>>
          ELSE /\ UNCHANGED fsVars
               /\ cleanupFailed' = [cleanupFailed EXCEPT ![p] = TRUE]
               /\ err' = [err EXCEPT ![p] = IoError("rm ", ws[p])]
       /\ Step(p, AfterCleanup(rmOk))
  /\ images' = StoreAfterCleanup(images, ImageName(args[p].buildId))
  /\ UNCHANGED <<inputVars, ctorPc, stderr, lookupVars, threw, fbResult, result>>

ReturnSuccess(p) ==
  /\ pc[p] = "returnSuccess"
  /\ result' = [result EXCEPT ![p] = SuccessResult(ImageName(args[p].buildId))]
  /\ Step(p, "done")
  /\ NoThrow
  /\ UNCHANGED <<inputVars, ctorPc, fsVars, images, stderr, lookupVars,
                 cleanupFailed, fbResult, touched>>

Catch(p) ==
  /\ pc[p] = "catch"
  /\ result' = [result EXCEPT ![p] = FailureResult(err[p])]
  /\ Step(p, "done")
  /\ NoThrow
  /\ UNCHANGED <<inputVars, ctorPc, fsVars, images, stderr, lookupVars,
                 cleanupFailed, fbResult, touched>>

\* ------------------------------------------------------ createFallbackBuild
FallbackDir(p) == PathJoin(buildDirectory, args[p].buildId)

\* Variant: the fallback creates its directory before it writes into it.
FallbackWriteCreatingDir(p) ==
  /\ pc[p] = "fb_write"
  /\ dirs' = MkdirRecursive(dirs, FallbackDir(p))
  /\ IF fbEnv[p].writeOk
     THEN /\ files' = WriteFile(files, PathJoin(FallbackDir(p), "Dockerfile"),
                                fallbackDockerfile)
          /\ touched' = [touched EXCEPT ![p] =
                           @ \cup {<<"mkdir", FallbackDir(p)>>,
                                   <<"write", FallbackDir(p)>>}]
          /\ Step(p, "fb_build")
          /\ NoThrow
     ELSE /\ files' = files
          /\ Touch(p, "mkdir", FallbackDir(p))
          /\ Throw(p, "fb_write",
                   IoError("open ", PathJoin(FallbackDir(p), "Dockerfile")))
  /\ UNCHANGED <<inputVars, ctorPc, images, stderr, lookupVars,
                 cleanupFailed, fbResult, result>>

\* writeFile into <buildRoot>/<buildId>, which the fallback does not create.
FallbackWrite(p) ==
  /\ pc[p] = "fb_write"
  /\ IF FallbackDir(p) \in dirs /\ fbEnv[p].writeOk
     THEN /\ files' = WriteFile(files, PathJoin(FallbackDir(p), "Dockerfile"),
                                fallbackDockerfile)
          /\ Touch(p, "write", FallbackDir(p))
          /\ Step(p, "fb_build")
          /\ NoThrow
     ELSE /\ files' = files
          /\ UNCHANGED touched
          /\ Throw(p, "fb_write",
                   IoError("open ", PathJoin(FallbackDir(p), "Dockerfile")))
  /\ UNCHANGED <<inputVars, ctorPc, dirs, images, stderr, lookupVars,
                 cleanupFailed, fbResult, result>>

FallbackExec(p) ==
  /\ pc[p] = "fb_build"
  /\ TouchBuild(p, FallbackDir(p), ImageName(args[p].buildId))
  /\ IF TimedOut(fbEnv[p].duration)
     THEN /\ Throw(p, "fb_build_timeout", CommandFailed(ImageName(args[p].buildId)))
          /\ UNCHANGED <<stderr, images>>
     ELSE IF ~fbEnv[p].exitOk
     THEN /\ Throw(p, "fb_build_exit", CommandFailed(ImageName(args[p].buildId)))
          /\ UNCHANGED <<stderr, images>>
     ELSE /\ \E s \in offer.stderrs : stderr' = [stderr EXCEPT ![p] = s]
          /\ images' = IF fbEnv[p].imageCreated
                       THEN images \cup {ImageName(args[p].buildId)}
                       ELSE images
          /\ Step(p, "fb_verify")
          /\ NoThrow
  /\ UNCHANGED <<inputVars, ctorPc, fsVars, lookupVars, cleanupFailed, fbResult, result>>

FallbackVerify(p) ==
  /\ pc[p] = "fb_verify"
  /\ IF ~fbEnv[p].lookupOk
     THEN /\ Throw(p, "fb_lookup_exec", LookupFailed(ImageName(args[p].buildId)))
          /\ UNCHANGED lookupVars
     ELSE \E out \in LookupAnswers(images, ImageName(args[p].buildId)) :
            /\ lookupOut' = [lookupOut EXCEPT ![p] = out]
            /\ lookupTag' = [lookupTag EXCEPT ![p] = ImageName(args[p].buildId)]
            /\ IF ImageMissing(out)
               THEN Throw(p, "fb_verify_empty",
                          <<"Fallback Docker image was not created successfully">>)
               ELSE Step(p, "fb_return") /\ NoThrow
  /\ stderr' = [stderr EXCEPT ![p] = <<>>]
  /\ UNCHANGED <<inputVars, ctorPc, fsVars, images, cleanupFailed,
                 fbResult, result, touched>>

FallbackReturn(p) ==
  /\ pc[p] = "fb_return"
  /\ fbResult' = [fbResult EXCEPT ![p] = SuccessResult(ImageName(args[p].buildId))]
  /\ Step(p, "fb_returned")
  /\ NoThrow
  /\ UNCHANGED <<inputVars, ctorPc, fsVars, images, stderr, lookupVars,
                 cleanupFailed, result, touched>>

FallbackCatch(p) ==
  /\ pc[p] = "fb_catch"
  /\ fbResult' = [fbResult EXCEPT ![p] = FallbackFailureResult(err[p])]
  /\ Step(p, "fb_returned")
  /\ NoThrow
  /\ UNCHANGED <<inputVars, ctorPc, fsVars, images, stderr, lookupVars,
                 cleanupFailed, result, touched>>

\* return await this.createFallbackBuild(...)
ReturnFallback(p) ==
  /\ pc[p] = "fb_returned"
  /\ result' = [result EXCEPT ![p] = fbResult[p]]
  /\ Step(p, "done")
  /\ NoThrow
  /\ UNCHANGED <<inputVars, ctorPc, fsVars, images, stderr, lookupVars,
                 cleanupFailed, fbResult, touched>>

\* ------------------------------------------------------------ specification
Next ==
  \/ initializeBuildDirectory
  \/ \E p \in Invocations : Call(p)
  \/ \E p \in Invocations : Mkdir(p)
  \/ \E p \in Invocations : Validate(p)
  \/ \E p \in Invocations : WriteDockerfile(p)
  \/ \E p \in Invocations : createDockerignore(p)
  \/ \E p \in Invocations : WritePackageJson(p)
  \/ \E p \in Invocations : createSourceFiles(p)
  \/ \E p \in Invocations : ExecBuild(p)
  \/ \E p \in Invocations : Verify(p)
  \/ \E p \in Invocations : cleanupBuildDir(p)
  \/ \E p \in Invocations : ReturnSuccess(p)
  \/ \E p \in Invocations : Catch(p)
  \/ \E p \in Invocations : FallbackWrite(p)
  \/ \E p \in Invocations : FallbackExec(p)
  \/ \E p \in Invocations : FallbackVerify(p)
  \/ \E p \in Invocations : FallbackReturn(p)
  \/ \E p \in Invocations : FallbackCatch(p)
  \/ \E p \in Invocations : ReturnFallback(p)

Spec == Init /\ [][Next]_vars

SpecConcurrent == InitConcurrent /\ [][Next]_vars

SpecWarnings == InitWarnings /\ [][Next]_vars

\* The steps of one invocation after the call: each awaited external call
\* returns or is killed at its timeout, and the continuation then runs.
InvocationStep(p) ==
  \/ Mkdir(p) \/ Validate(p) \/ WriteDockerfile(p) \/ createDockerignore(p)
  \/ WritePackageJson(p) \/ createSourceFiles(p) \/ ExecBuild(p) \/ Verify(p)
  \/ cleanupBuildDir(p) \/ ReturnSuccess(p) \/ Catch(p) \/ FallbackWrite(p)
  \/ FallbackExec(p) \/ FallbackVerify(p) \/ FallbackReturn(p)
  \/ FallbackCatch(p) \/ ReturnFallback(p)

InitLive == InitWith({"i1"}, ConcurrentOffer)

SpecLive ==
  /\ InitLive
  /\ [][Next]_vars
  /\ \A p \in Invocations : WF_vars(InvocationStep(p))

\* ------------------------------------------- repeated workspace assembly
\* Number of times the assembly steps (lines 107-122) were started.
Runs(p) == Cardinality({i \in 1..Len(trace[p]) : trace[p][i] = "writeDockerfile"})
             + (IF pc[p] = "writeDockerfile" THEN 1 ELSE 0)

\* The assembly steps are run again on the workspace they just filled, with
\* the same or another accepted build file and repository descriptor.
Rematerialize(p) ==
  /\ pc[p] = "build"
  /\ Runs(p) < MaxRuns
  /\ \E text \in {t \in offer.texts : validateDockerfile(t).isValid},
        repo \in offer.repositoryDatas :
       args' = [args EXCEPT ![p].dockerfileContent = text,
                            ![p].repositoryData = repo]
  /\ Step(p, "writeDockerfile")
  /\ NoThrow
  /\ UNCHANGED <<scopeVars, fbEnv, ws, usedUuids, ctorPc, fsVars, images, stderr,
                 lookupVars, cleanupFailed, fbResult, result, touched>>

NextMaterialize ==
  \/ initializeBuildDirectory
  \/ \E p \in Invocations : Call(p)
  \/ \E p \in Invocations : Mkdir(p)
  \/ \E p \in Invocations : Validate(p)
  \/ \E p \in Invocations : WriteDockerfile(p)
  \/ \E p \in Invocations : createDockerignore(p)
  \/ \E p \in Invocations : WritePackageJson(p)
  \/ \E p \in Invocations : createSourceFiles(p)
  \/ \E p \in Invocations : Rematerialize(p)

SpecMaterialize == InitMaterialize /\ [][NextMaterialize]_vars

\* ------------------------------------------------------ registry operations
\* Names the host's image store can hold: images of this system, and images
\* of other users of the same store.
StoreNames ==
  { ImageName("b1"), ImageName("b2"), <<"nginx", ":latest">>,
    <<"my-", "dockgen-ai", ":v1">> }

\* Standard output of `docker inspect <name>`: the JSON document, or what a
\* reader gets of it when the output is cut short.
InspectJson == <<"[", "{", "Id", ":", "sha256:abc123", "}", "]", "\n">>
UnparsableOutputs == { <<>>, <<"[", "{", "Id", ":">> }
InspectOutputs == {InspectJson} \cup UnparsableOutputs

Orderings(S) ==
  { o \in [1..Cardinality(S) -> S] :
      \A i, j \in 1..Cardinality(S) : i # j => o[i] # o[j] }

RECURSIVE JoinLines(_)
JoinLines(names) ==
  IF names = <<>> THEN <<>>
  ELSE Head(names) \o <<"\n">> \o JoinLines(Tail(names))

\* Standard output of `docker images --format "{{.Repository}}:{{.Tag}}"`:
\* one line per image of the store, in the order the daemon picks.
ListingOutputs(store) == { JoinLines(o) : o \in Orderings(store) }

MentionsPrefix(line) == Includes(line, NamingPrefix)

InitRegistry ==
  /\ callers = {}
  /\ offer = FullOffer
  /\ ctorPc = "done"
  /\ dirs = {buildDirectory}
  /\ files = << >>
  /\ images \in SUBSET StoreNames
  /\ usedUuids = {}
  /\ pc = [p \in Invocations |-> "idle"]
  /\ args = [p \in Invocations |-> NoArgs]
  /\ fbEnv = [p \in Invocations |-> NoFallbackEnv]
  /\ ws = [p \in Invocations |-> <<>>]
  /\ stderr = [p \in Invocations |-> <<>>]
  /\ lookupOut = [p \in Invocations |-> NotLookedUp]
  /\ lookupTag = [p \in Invocations |-> <<>>]
  /\ err = [p \in Invocations |-> <<>>]
  /\ threw = [p \in Invocations |-> "none"]
  /\ cleanupFailed = [p \in Invocations |-> FALSE]
  /\ fbResult = [p \in Invocations |-> Pending]
  /\ result = [p \in Invocations |-> Pending]
  /\ trace = [p \in Invocations |-> <<>>]
  /\ touched = [p \in Invocations |-> {}]
  /\ registry = NoRegistryCall
  /\ GitHubIdle

buildVars ==
  <<callers, offer, ctorPc, dirs, files, usedUuids, pc, args, fbEnv, ws, stderr,
    lookupOut, lookupTag, err, threw, cleanupFailed, fbResult, result, trace, touched,
    ghVars>>

\* Variant: the output of the inspection is parsed after the try block.
getImageInfoParsedOutsideTry(cmdOk, stdout) ==
  IF ~cmdOk THEN [threw |-> FALSE, value |-> Null]
  ELSE IF JsonParse(stdout).ok THEN [threw |-> FALSE, value |-> JsonParse(stdout).value]
  ELSE [threw |-> TRUE, value |-> Null]

\* What getImageInfo returns: the parsed document, or null when the command
\* or the parse throws inside the try block.
getImageInfoReturn(cmdOk, stdout) ==
  IF cmdOk /\ JsonParse(stdout).ok
  THEN [threw |-> FALSE, value |-> JsonParse(stdout).value]
  ELSE [threw |-> FALSE, value |-> Null]

\* stdout.trim().split('\n').filter(line => line.includes('dockgen-ai')), or
\* the empty list when the command throws.
listImagesReturn(cmdOk, stdout) ==
  IF cmdOk THEN SelectSeq(SplitLines(Trim(stdout)), MentionsPrefix) ELSE <<>>

\* docker inspect fails on a name the store does not hold, and may fail on
\* any name (daemon unreachable).
getImageInfo ==
  \E name \in StoreNames, cmdOk \in BOOLEAN, stdout \in InspectOutputs :
    /\ cmdOk => name \in images
    /\ ~cmdOk => stdout = <<>>
    /\ registry' = [op |-> "getImageInfo", name |-> name, cmdOk |-> cmdOk,
                    stdout |-> stdout,
                    threw |-> getImageInfoReturn(cmdOk, stdout).threw,
                    value |-> getImageInfoReturn(cmdOk, stdout).value]
    /\ UNCHANGED <<buildVars, images>>

listImages ==
  \E cmdOk \in BOOLEAN, listing \in ListingOutputs(images) :
    LET stdout == IF cmdOk THEN listing ELSE <<>>
    IN /\ registry' = [op |-> "listImages", name |-> <<>>, cmdOk |-> cmdOk,
                       stdout |-> stdout, threw |-> FALSE,
                       value |-> listImagesReturn(cmdOk, stdout)]
       /\ UNCHANGED <<buildVars, images>>

\* docker rmi fails on a name the store does not hold, and may fail on any
\* name (image in use, daemon unreachable).
deleteImage ==
  \E name \in StoreNames, cmdOk \in BOOLEAN :
    /\ cmdOk => name \in images
    /\ images' = IF cmdOk THEN images \ {name} ELSE images
    /\ registry' = [op |-> "deleteImage", name |-> name, cmdOk |-> cmdOk,
                    stdout |-> <<>>, threw |-> FALSE, value |-> cmdOk]
    /\ UNCHANGED buildVars

NextRegistry ==
  \/ getImageInfo
  \/ listImages
  \/ deleteImage

SpecRegistry == InitRegistry /\ [][NextRegistry]_vars

\* --------------------------------------------------- RepositoryDataProvider
\* Repository URLs a caller passes: a full one, and ones that lack the
\* repository name or the owner.
RepositoryUrls ==
  { <<"https://github.com/", "owner", "/", "repo">>,
    <<"https://github.com/", "owner">>,
    <<"https://github.com/", "owner", "/">>,
    <<"https://github.com/">> }

\* String.prototype.replace(pattern, ''): the first occurrence is removed.
RECURSIVE RemoveFirst(_, _)
RemoveFirst(text, token) ==
  IF text = <<>> THEN <<>>
  ELSE IF Head(text) = token THEN Tail(text)
  ELSE <<Head(text)>> \o RemoveFirst(Tail(text), token)

\* String.prototype.split(sep)
RECURSIVE SplitOn(_, _)
SplitOn(text, sep) ==
  IF \A i \in 1..Len(text) : text[i] # sep THEN <<text>>
  ELSE LET i == CHOOSE k \in 1..Len(text) :
                  /\ text[k] = sep
                  /\ \A j \in 1..(k - 1) : text[j] # sep
       IN <<SubSeq(text, 1, i - 1)>> \o SplitOn(SubSeq(text, i + 1, Len(text)), sep)

\* urlParts[i]: undefined and the empty string are both falsy.
UrlPart(parts, i) == IF i <= Len(parts) THEN parts[i] ELSE <<>>

UrlParts(url) == SplitOn(RemoveFirst(url, "https://github.com/"), "/")

\* !repositoryOwner || !repositoryName
InvalidUrl(url) == UrlPart(UrlParts(url), 1) = <<>> \/ UrlPart(UrlParts(url), 2) = <<>>

\* Manifest of the remote repository, with grouped properties spelled
\* <group>.<member>.
RemoteManifest ==
  << <<"name", "repo-app">>, <<"dependencies.express", "^4.18.2">>,
     <<"devDependencies.nodemon", "^2.0.0">>, <<"scripts.start", "node index.js">> >>

GroupedKeys ==
  ("dependencies.express" :> <<"dependencies", "express">>)
  @@ ("devDependencies.nodemon" :> <<"devDependencies", "nodemon">>)
  @@ ("scripts.start" :> <<"scripts", "start">>)

\* Object.keys(manifest[group] || {}) for dependencies and devDependencies,
\* manifest.scripts || {} for scripts: the members of the group, in order.
RECURSIVE MembersOf(_, _)
MembersOf(m, group) ==
  IF m = <<>> THEN <<>>
  ELSE (IF Head(m)[1] \in DOMAIN GroupedKeys /\ GroupedKeys[Head(m)[1]][1] = group
        THEN <<GroupedKeys[Head(m)[1]][2]>> ELSE <<>>)
       \o MembersOf(Tail(m), group)

\* What a download of package.json delivers: the document as an object (the
\* HTTP client parsed it), as text, or text that is no JSON document.
ManifestContents ==
  { [kind |-> "object", value |-> RemoteManifest, text |-> <<>>],
    [kind |-> "string", value |-> <<>>, text |-> JsonStringify(RemoteManifest)],
    [kind |-> "string", value |-> <<>>, text |-> <<"{", "name", ":">>],
    [kind |-> "string", value |-> <<>>, text |-> <<>>] }

SourceContent == [kind |-> "string", value |-> <<>>, text |-> <<"source">>]

\* Remote repositories: a chain of nested directories of some depth, a
\* package.json of some content, and a Dockerfile entry that is absent, a
\* file or a directory.
Remotes ==
  [depth : 0..MaxTreeDepth, manifest : ManifestContents,
   dockerfile : {"absent", "file", "directory"}]

PackageJsonName == <<"package", ".json">>

\* Path strings are segments separated by "/" tokens.
RECURSIVE PathString(_)
PathString(segments) ==
  IF segments = <<>> THEN <<>>
  ELSE IF Len(segments) = 1 THEN Head(segments)
  ELSE Head(segments) \o <<"/">> \o PathString(Tail(segments))

\* Listing the contents API returns for the directory <dirs> of a remote:
\* package.json and LICENSE at the root, index.js below it, and the next
\* directory of the chain where there is one.
Listing(remote, dirSegments) ==
  LET level == Len(dirSegments)
      item(type, name) ==
        [type |-> type, name |-> name, path |-> PathString(Append(dirSegments, name))]
      fileItems == IF level = 0
                   THEN <<item("file", PackageJsonName), item("file", <<"LICENSE">>)>>
                   ELSE <<item("file", <<"index", ".js">>)>>
      dirItems == IF level < remote.depth THEN <<item("dir", <<"lib">>)>> ELSE <<>>
  IN fileItems \o dirItems

\* importantFiles
ImportantFiles ==
  { PackageJsonName, <<"package-lock", ".json">>, <<"yarn", ".lock">>,
    <<"Dockerfile">>, <<"docker-compose", ".yml">>, <<"README", ".md">>,
    <<"index", ".js">>, <<"index", ".ts">>, <<"app", ".js">>, <<"app", ".ts">>,
    <<"server", ".js">>, <<"server", ".ts">>, <<"main", ".js">>, <<"main", ".ts">> }

EndsWith(name, suffix) == name # <<>> /\ name[Len(name)] = suffix

\* importantFiles.includes(item.name) || item.name.endsWith('.json') || ...
IsImportant(name) ==
  \/ name \in ImportantFiles
  \/ EndsWith(name, ".json") \/ EndsWith(name, ".js") \/ EndsWith(name, ".ts")

\* Largest number of path segments of a directory whose contents are fetched.
DirSegmentLimit == 3

\* item.path.split('/').length <= 3
WithinDepthLimit(path) == Len(SplitOn(path, "/")) <= DirSegmentLimit

\* Ways an HTTP request fails: a response with an error status, or no
\* response at all (status 0).
HttpFailureStatuses == {404, 401, 403, 500, 0}

AxiosError(status) ==
  [axios |-> TRUE, status |-> status,
   message |-> IF status = 0 THEN <<"Network Error">>
               ELSE <<"Request failed with status code ", ToString(status)>>]

PlainError(message) == [axios |-> FALSE, status |-> 0, message |-> message]

Request(method, kind, path, sha, status) ==
  [method |-> method, kind |-> kind, path |-> path, sha |-> sha, status |-> status]

pipelineVars ==
  <<callers, offer, ctorPc, dirs, files, images, usedUuids, pc, args, fbEnv, ws,
    stderr, lookupOut, lookupTag, err, threw, cleanupFailed, fbResult, result, trace,
    touched, registry>>

InitGitHub ==
  /\ callers = {}
  /\ offer = FullOffer
  /\ ctorPc = "done"
  /\ dirs = {buildDirectory}
  /\ files = << >>
  /\ images = InitialImages
  /\ usedUuids = {}
  /\ pc = [p \in Invocations |-> "idle"]
  /\ args = [p \in Invocations |-> NoArgs]
  /\ fbEnv = [p \in Invocations |-> NoFallbackEnv]
  /\ ws = [p \in Invocations |-> <<>>]
  /\ stderr = [p \in Invocations |-> <<>>]
  /\ lookupOut = [p \in Invocations |-> NotLookedUp]
  /\ lookupTag = [p \in Invocations |-> <<>>]
  /\ err = [p \in Invocations |-> <<>>]
  /\ threw = [p \in Invocations |-> "none"]
  /\ cleanupFailed = [p \in Invocations |-> FALSE]
  /\ fbResult = [p \in Invocations |-> Pending]
  /\ result = [p \in Invocations |-> Pending]
  /\ trace = [p \in Invocations |-> <<>>]
  /\ touched = [p \in Invocations |-> {}]
  /\ registry = NoRegistryCall
  /\ ghPc = "idle"
  /\ ghUrl = <<>>
  /\ ghRemote \in Remotes
  /\ ghStack = <<>>
  /\ ghFiles = <<>>
  /\ ghRequests = <<>>
  /\ ghExisting = NoExisting
  /\ ghResult = NoGitHubResult

\* ---- processRepositoryFiles
Frame(items) == [items |-> items, idx |-> 1, out |-> <<>>]

Top == ghStack[Len(ghStack)]

AtItem == ghPc = "traverse" /\ ghStack # <<>> /\ Top.idx <= Len(Top.items)

Current == Top.items[Top.idx]

\* The innermost activation moves to its next item, with <more> appended to
\* its list.
Advance(more) ==
  ghStack' = [ghStack EXCEPT ![Len(ghStack)] =
                [@ EXCEPT !.idx = @ + 1, !.out = @ \o more]]

FileContent(item) ==
  IF item.name = PackageJsonName THEN ghRemote.manifest ELSE SourceContent

\* Variant: a failed request ends the loop over the listing.
FetchFailedEndsLoop ==
  ghStack' = [ghStack EXCEPT ![Len(ghStack)] =
                [@ EXCEPT !.idx = Len(Top.items) + 1]]

\* The catch blocks of lines 256-258 and 273-275: the failure is logged and
\* the loop goes on with the next item.
FetchFailed == Advance(<<>>)

\* An important file is downloaded and appended to the list.
FetchFile ==
  /\ AtItem
  /\ Current.type = "file"
  /\ IsImportant(Current.name)
  /\ \E status \in {200, 500} :
       /\ ghRequests' = Append(ghRequests,
                               Request("GET", "download", Current.path, "none", status))
       /\ IF status = 200
          THEN Advance(<< [name |-> Current.name, path |-> Current.path,
                           content |-> FileContent(Current), type |-> "file"] >>)
          ELSE FetchFailed
  /\ UNCHANGED <<pipelineVars, ghPc, ghUrl, ghRemote, ghFiles, ghExisting, ghResult>>

\* A file that is not important is passed over.
SkipFile ==
  /\ AtItem
  /\ Current.type = "file"
  /\ ~IsImportant(Current.name)
  /\ Advance(<<>>)
  /\ UNCHANGED <<pipelineVars, ghPc, ghUrl, ghRemote, ghFiles, ghRequests, ghExisting, ghResult>>

\* The contents of a directory within the limit are requested; on success
\* processRepositoryFiles is entered for its listing.
FetchDirectory ==
  /\ AtItem
  /\ Current.type = "dir"
  /\ WithinDepthLimit(Current.path)
  /\ \E status \in {200, 500} :
       /\ ghRequests' = Append(ghRequests,
                               Request("GET", "contents", Current.path, "none", status))
       /\ IF status = 200
          THEN ghStack' = Append(ghStack,
                                 Frame(Listing(ghRemote, SplitOn(Current.path, "/"))))
          ELSE FetchFailed
  /\ UNCHANGED <<pipelineVars, ghPc, ghUrl, ghRemote, ghFiles, ghExisting, ghResult>>

\* A directory beyond the limit is passed over.
SkipDirectory ==
  /\ AtItem
  /\ Current.type = "dir"
  /\ ~WithinDepthLimit(Current.path)
  /\ Advance(<<>>)
  /\ UNCHANGED <<pipelineVars, ghPc, ghUrl, ghRemote, ghFiles, ghRequests, ghExisting, ghResult>>

\* return repositoryFiles: an inner activation hands its list to the one
\* that called it (push(...subFiles)), the outermost to its caller.
ReturnFiles ==
  /\ ghPc = "traverse"
  /\ ghStack # <<>>
  /\ Top.idx > Len(Top.items)
  /\ IF Len(ghStack) > 1
     THEN /\ ghStack' = [SubSeq(ghStack, 1, Len(ghStack) - 1)
                           EXCEPT ![Len(ghStack) - 1] =
                             [@ EXCEPT !.idx = @ + 1, !.out = @ \o Top.out]]
          /\ UNCHANGED <<ghFiles, ghPc>>
     ELSE /\ ghStack' = <<>>
          /\ ghFiles' = Top.out
          /\ ghPc' = "extract"
  /\ UNCHANGED <<pipelineVars, ghUrl, ghRemote, ghRequests, ghExisting, ghResult>>

\* ---- retrieveRepositoryInformation
Thrown(op, message) == [kind |-> "thrown", op |-> op, message |-> message]

Returned(op, value) == [kind |-> "returned", op |-> op, value |-> value]

\* Variant: every failure is reported with the generic message.
RetrieveErrorGeneric(e) == <<"Failed to fetch repository: ">> \o e.message

\* The catch block of lines 97-106.
RetrieveError(e) ==
  IF e.axios /\ e.status = 404 THEN <<"Repository not found or access denied">>
  ELSE IF e.axios /\ e.status = 401 THEN <<"Invalid GitHub token">>
  ELSE <<"Failed to fetch repository: ">> \o e.message

retrieveRepositoryInformation ==
  /\ ghPc = "idle"
  /\ \E url \in RepositoryUrls :
       /\ ghUrl' = url
       /\ IF InvalidUrl(url)
          THEN /\ ghPc' = "threw"
               /\ ghResult' = Thrown("retrieve",
                                RetrieveError(PlainError(<<"Invalid GitHub URL format">>)))
          ELSE /\ ghPc' = "getRepository"
               /\ UNCHANGED ghResult
  /\ UNCHANGED <<pipelineVars, ghRemote, ghStack, ghFiles, ghRequests, ghExisting>>

GetRepository ==
  /\ ghPc = "getRepository"
  /\ \E status \in {200} \cup HttpFailureStatuses :
       /\ ghRequests' = Append(ghRequests, Request("GET", "repos", <<>>, "none", status))
       /\ IF status = 200
          THEN ghPc' = "getContents" /\ UNCHANGED ghResult
          ELSE /\ ghPc' = "threw"
               /\ ghResult' = Thrown("retrieve", RetrieveError(AxiosError(status)))
  /\ UNCHANGED <<pipelineVars, ghUrl, ghRemote, ghStack, ghFiles, ghExisting>>

\* The root listing is fetched and handed to processRepositoryFiles.
GetContents ==
  /\ ghPc = "getContents"
  /\ \E status \in {200} \cup HttpFailureStatuses :
       /\ ghRequests' = Append(ghRequests, Request("GET", "contents", <<>>, "none", status))
       /\ IF status = 200
          THEN /\ ghPc' = "traverse"
               /\ ghStack' = <<Frame(Listing(ghRemote, <<>>))>>
               /\ UNCHANGED ghResult
          ELSE /\ ghPc' = "threw"
               /\ ghResult' = Thrown("retrieve", RetrieveError(AxiosError(status)))
               /\ UNCHANGED ghStack
  /\ UNCHANGED <<pipelineVars, ghUrl, ghRemote, ghFiles, ghExisting>>

IsPackageJson(file) == file.name = PackageJsonName

\* typeof content === 'string' ? content : JSON.stringify(content)
ContentText(content) ==
  IF content.kind = "string" THEN content.text ELSE JsonStringify(content.value)

NoManifestFields ==
  [packageJson |-> Null, dependencies |-> <<>>, devDependencies |-> <<>>,
   scripts |-> <<>>]

\* Variant: a package.json that cannot be parsed is kept as its text.
ManifestFieldsKeepingText(fileList) ==
  LET found == SelectSeq(fileList, IsPackageJson)
  IN IF found = <<>> THEN NoManifestFields
     ELSE [NoManifestFields EXCEPT !.packageJson = ContentText(found[1].content)]

\* Lines 62-82: the first package.json of the list is parsed; a parse
\* failure is logged and leaves the four fields at their initial values.
ManifestFields(fileList) ==
  LET found == SelectSeq(fileList, IsPackageJson)
      parsed == JsonParse(ContentText(found[1].content))
  IN IF found = <<>> THEN NoManifestFields
     ELSE IF ~parsed.ok THEN NoManifestFields
     ELSE [packageJson |-> parsed.value,
           dependencies |-> MembersOf(parsed.value, "dependencies"),
           devDependencies |-> MembersOf(parsed.value, "devDependencies"),
           scripts |-> MembersOf(parsed.value, "scripts")]

ExtractPackageJson ==
  /\ ghPc = "extract"
  /\ ghPc' = "returned"
  /\ ghResult' = Returned("retrieve",
                          [name |-> UrlPart(UrlParts(ghUrl), 2),
                           files |-> ghFiles,
                           manifest |-> ManifestFields(ghFiles)])
  /\ UNCHANGED <<pipelineVars, ghUrl, ghRemote, ghStack, ghFiles, ghRequests, ghExisting>>

\* The descriptor as buildImage reads it: repositoryData?.packageJson.
AsRepositoryData(descriptor) ==
  [defined |-> TRUE,
   hasPackageJson |-> descriptor.manifest.packageJson # Null,
   packageJson |-> IF descriptor.manifest.packageJson # Null
                   THEN descriptor.manifest.packageJson ELSE <<>>]

\* ---- commitDockerfileToRepository
\* The catch block of lines 205-215.
CommitError(e) ==
  IF e.axios /\ e.status = 401
  THEN <<"Invalid GitHub token or insufficient permissions">>
  ELSE IF e.axios /\ e.status = 403
  THEN <<"Repository access denied or token lacks write permissions">>
  ELSE <<"Failed to push Dockerfile: ">> \o e.message

DockerfilePathSegments == <<"Dockerfile">>

commitDockerfileToRepository ==
  /\ ghPc = "idle"
  /\ \E url \in RepositoryUrls :
       /\ ghUrl' = url
       /\ IF InvalidUrl(url)
          THEN /\ ghPc' = "threw"
               /\ ghResult' = Thrown("commit",
                                CommitError(PlainError(<<"Invalid GitHub URL format">>)))
          ELSE /\ ghPc' = "lookupDockerfile"
               /\ UNCHANGED ghResult
  /\ UNCHANGED <<pipelineVars, ghRemote, ghStack, ghFiles, ghRequests, ghExisting>>

\* What the contents API answers for the path Dockerfile: the file's
\* description with its sha, or the listing of a directory of that name, an
\* array, whose sha property is undefined.
ExistingData(remote) ==
  IF remote.dockerfile = "file" THEN [kind |-> "file", sha |-> "sha1"]
  ELSE [kind |-> "listing", sha |-> "undefined"]

LookupStatuses(remote) ==
  (IF remote.dockerfile = "absent" THEN {} ELSE {200}) \cup HttpFailureStatuses

\* Variant: a lookup that fails for another reason than "not found" ends
\* the operation.
LookupFailureRethrown(status) ==
  IF status = 404
  THEN ghPc' = "putDockerfile" /\ UNCHANGED <<ghExisting, ghResult>>
  ELSE /\ ghPc' = "threw"
       /\ ghResult' = Thrown("commit", CommitError(AxiosError(status)))
       /\ UNCHANGED ghExisting

\* The empty catch of lines 177-179: existingDockerfile stays null.
LookupFailure(status) ==
  ghPc' = "putDockerfile" /\ UNCHANGED <<ghExisting, ghResult>>

LookupDockerfile ==
  /\ ghPc = "lookupDockerfile"
  /\ \E status \in LookupStatuses(ghRemote) :
       /\ ghRequests' = Append(ghRequests,
                               Request("GET", "contents", DockerfilePathSegments,
                                       "none", status))
       /\ IF status = 200
          THEN /\ ghExisting' = ExistingData(ghRemote)
               /\ ghPc' = "putDockerfile"
               /\ UNCHANGED ghResult
          ELSE LookupFailure(status)
  /\ UNCHANGED <<pipelineVars, ghUrl, ghRemote, ghStack, ghFiles>>

\* if (existingDockerfile) commitRequestBody.sha = existingDockerfile.sha
BodySha(existing) == IF existing.kind # "null" THEN existing.sha ELSE "none"

\* The body is sent as JSON, which leaves out a property that is undefined.
SentSha(bodySha) == IF bodySha = "undefined" THEN "none" ELSE bodySha

\* Statuses with which the commit request resolves, and those with which
\* it is rejected.
PutSuccessStatuses == {200, 201, 204}

PutFailureStatuses == HttpFailureStatuses \cup {422}

\* response.status === 200 || response.status === 201
CommitReturn(status) == status = 200 \/ status = 201

PutDockerfile ==
  /\ ghPc = "putDockerfile"
  /\ \E status \in PutSuccessStatuses \cup PutFailureStatuses :
       /\ ghRequests' = Append(ghRequests,
                               Request("PUT", "contents", DockerfilePathSegments,
                                       SentSha(BodySha(ghExisting)), status))
       /\ IF status \in PutSuccessStatuses
          THEN /\ ghPc' = "returned"
               /\ ghResult' = Returned("commit", CommitReturn(status))
          ELSE /\ ghPc' = "threw"
               /\ ghResult' = Thrown("commit", CommitError(AxiosError(status)))
  /\ UNCHANGED <<pipelineVars, ghUrl, ghRemote, ghStack, ghFiles, ghExisting>>

NextGitHub ==
  \/ retrieveRepositoryInformation
  \/ GetRepository
  \/ GetContents
  \/ FetchFile
  \/ SkipFile
  \/ FetchDirectory
  \/ SkipDirectory
  \/ ReturnFiles
  \/ ExtractPackageJson
  \/ commitDockerfileToRepository
  \/ LookupDockerfile
  \/ PutDockerfile

SpecGitHub == InitGitHub /\ [][NextGitHub]_vars

\* ------------------------------------------------------------------- claims
Done(p) == pc[p] = "done"

InTrace(p, label) == \E i \in 1..Len(trace[p]) : trace[p][i] = label

InvokedFallback(p) == InTrace(p, "fb_write")

Rejected(p) == ~validateDockerfile(args[p].dockerfileContent).isValid

\* Directories the invocation created or worked in.
WorkspacesOf(p) ==
  (IF InTrace(p, "mkdir") /\ threw[p] # "mkdir" THEN {ws[p]} ELSE {})
  \cup (IF InTrace(p, "fb_build") THEN {FallbackDir(p)} ELSE {})

\* C1: after buildImage has returned, on whatever path, no workspace
\* directory that the invocation created or used exists on disk.
C1_NoWorkspaceOutlivesInvocation ==
  \A p \in Invocations :
    Done(p) => \A d \in WorkspacesOf(p) : d \notin dirs

PrimaryExecutionFailures == {"build_exit", "build_timeout", "classify", "verify_empty"}

\* C2: when the primary build of a validated build file fails at execution,
\* the fallback is invoked before buildImage returns and the returned result
\* is the fallback's result.
C2_FallbackAfterPrimaryFailure ==
  \A p \in Invocations :
    (Done(p) /\ threw[p] \in PrimaryExecutionFailures)
      => (InvokedFallback(p) /\ result[p] = fbResult[p])

\* C3: a primary builder run that exceeds the 300-second timeout counts as a
\* failed attempt, the fallback is then invoked, and a succeeding fallback
\* makes buildImage return success with the fallback's artifact id.
C3_TimeoutThenFallback ==
  \A p \in Invocations :
    (Done(p) /\ threw[p] = "build_timeout")
      => /\ InTrace(p, "fb_build")
         /\ (fbResult[p] = SuccessResult(ImageName(args[p].buildId))
               => result[p] = fbResult[p])

\* C4: every returned result is either success with imageId
\* dockgen-ai-<buildId>:latest and no error, or failure with a non-empty
\* error and no imageId.
C4_TwoResultShapes ==
  \A p \in Invocations :
    Done(p) =>
      \/ /\ DOMAIN result[p] = {"success", "imageId"}
         /\ result[p].success = TRUE
         /\ result[p].imageId = <<"dockgen-ai", "-", args[p].buildId, ":latest">>
         /\ Len(result[p].imageId) > 0
      \/ /\ DOMAIN result[p] = {"success", "error"}
         /\ result[p].success = FALSE
         /\ Len(result[p].error) > 0

C4_Witness ==
  \E p \in Invocations :
    Done(p) /\ InvokedFallback(p) /\ "imageId" \in DOMAIN result[p]

\* createFallbackBuild run on its own for a build id, as a function of the
\* directories, the image store and the outside world's answers.
FallbackAloneSucceeds(dirSet, store, buildId, env) ==
  IF PathJoin(buildDirectory, buildId) \notin dirSet \/ ~env.writeOk THEN FALSE
  ELSE IF env.duration > BuildTimeoutMs \/ ~env.exitOk THEN FALSE
  ELSE IF ~env.lookupOk THEN FALSE
  ELSE ImageName(buildId) \in store \/ env.imageCreated

MaterializationStages ==
  {"writeDockerfile", "createDockerignore", "packageJson", "createSourceFiles"}

\* C6: once the validator has rejected the build file, control is in the
\* fallback; no primary materialization step runs and no file on disk holds
\* the original text.
C6_RejectedTextNeverMaterialized ==
  \A p \in Invocations :
    (InTrace(p, "validate") /\ Rejected(p))
      => /\ trace[p][Len(trace[p])] = "validate" => pc[p] = "fb_write"
         /\ \A stage \in MaterializationStages : ~InTrace(p, stage)
         /\ pc[p] \notin MaterializationStages
         /\ \A f \in DOMAIN files : files[f] # args[p].dockerfileContent

C6_Witness ==
  \E p \in Invocations :
    /\ Done(p) /\ Rejected(p) /\ InTrace(p, "fb_build")
    /\ PathJoin(FallbackDir(p), "Dockerfile") \in DOMAIN files

\* The markers of the classification rule, stated on the words of a stream.
HasErrorMarker(s) == \E i \in 1..Len(s) : s[i] = "ERROR"

HasSuccessMarker(s) ==
  \E i \in 1..(Len(s) - 1) : s[i] = "Successfully" /\ s[i + 1] = "built"

\* C7: a primary builder run that returned normally is classified as failed
\* exactly when its stderr contains 'ERROR' and not 'Successfully built'; both
\* markers give success, and a stream without 'ERROR' is no failure.
C7_ClassificationRule ==
  \A p \in Invocations :
    /\ pc[p] = "verify"
         => ~(HasErrorMarker(stderr[p]) /\ ~HasSuccessMarker(stderr[p]))
    /\ threw[p] = "classify"
         => /\ err[p][1] = "Docker build failed: "
            /\ HasErrorMarker(Tail(err[p]))
            /\ ~HasSuccessMarker(Tail(err[p]))

C7_Witness ==
  \E p \in Invocations :
    pc[p] = "verify" /\ stderr[p] = <<"ERROR", "Successfully", "built">>

\* The identifier a lookup returned: its output without surrounding blanks.
ReturnedIdentifier(out) ==
  IF out = NotLookedUp THEN <<>>
  ELSE SelectSeq(out, LAMBDA c : c \notin {" ", "\n", "\t"})

\* C8: buildImage returns success only if the lookup of the tag
\* dockgen-ai-<buildId>:latest, made after the builder run of that path,
\* returned a non-empty identifier; an empty identifier makes the attempt a
\* failure.
C8_SuccessOnlyIfImageFound ==
  \A p \in Invocations :
    Done(p) =>
      /\ result[p].success
           => /\ lookupTag[p] = <<"dockgen-ai", "-", args[p].buildId, ":latest">>
              /\ ReturnedIdentifier(lookupOut[p]) # <<>>
      /\ (lookupOut[p] # NotLookedUp /\ ReturnedIdentifier(lookupOut[p]) = <<>>)
           => /\ ~result[p].success
              /\ threw[p] \in {"verify_empty", "fb_verify_empty"}

C8_Witness ==
  \E p \in Invocations :
    /\ Done(p) /\ ~result[p].success
    /\ InTrace(p, "build") /\ lookupOut[p] = <<"\n">>

FallbackFailures ==
  {"fb_write", "fb_build_exit", "fb_build_timeout", "fb_lookup_exec", "fb_verify_empty"}

\* C9 as stated: no exception escapes buildImage, and the failure of any
\* stage, cleanup included, ends in the fallback path or in a returned result
\* with success == false and an error message.
C9_EveryFailureBecomesFailureResult ==
  \A p \in Invocations :
    /\ pc[p] # "escaped"
    /\ (Done(p) /\ (threw[p] # "none" \/ cleanupFailed[p]))
         => \/ InvokedFallback(p) /\ threw[p] \notin FallbackFailures
            \/ /\ result[p].success = FALSE
               /\ Len(result[p].error) > 0

\* C9 amended: no exception escapes buildImage; the failure of any stage other
\* than cleanup ends in the fallback path or in a returned result with
\* success == false and an error message.
C9_NoExceptionEscapes ==
  \A p \in Invocations :
    /\ pc[p] # "escaped"
    /\ (Done(p) /\ threw[p] # "none")
         => \/ InvokedFallback(p) /\ threw[p] \notin FallbackFailures
            \/ /\ result[p].success = FALSE
               /\ Len(result[p].error) > 0
    /\ (pc[p] \in {"catch", "fb_catch"}) => threw[p] # "none"

C9_Witness ==
  \E p \in Invocations :
    Done(p) /\ threw[p] = "mkdir" /\ ~result[p].success

\* C10: a failed delete of the workspace never changes the verdict: after a
\* successful build and verification buildImage still returns success with
\* the artifact id.
C10_CleanupFailureKeepsVerdict ==
  \A p \in Invocations :
    (Done(p) /\ cleanupFailed[p])
      => result[p] = [success |-> TRUE,
                      imageId |-> <<"dockgen-ai", "-", args[p].buildId, ":latest">>]

C10_Witness ==
  \E p \in Invocations :
    Done(p) /\ cleanupFailed[p] /\ ws[p] \in dirs

\* C11: when the fallback build fails, the returned error message names both
\* the cause of the original failure (the validation errors or the primary
\* build error) and the cause of the fallback failure.
C11_BothCausesNamed ==
  \A p \in Invocations :
    (Done(p) /\ InvokedFallback(p) /\ ~result[p].success)
      => /\ Includes(result[p].error, err[p])
         /\ Includes(result[p].error,
                     validateDockerfile(args[p].dockerfileContent).errors)

\* C15: the fallback build classifies its builder run as the primary build
\* does: a run whose stderr contains 'ERROR' and not 'Successfully built' is
\* failed and does not go on to verification; both run with the same timeout.
C15_FallbackClassifiesStderr ==
  \A p \in Invocations :
    /\ pc[p] = "fb_verify"
         => ~(HasErrorMarker(stderr[p]) /\ ~HasSuccessMarker(stderr[p]))
    /\ threw[p] = "fb_build_timeout" => fbEnv[p].duration > 300000

ManifestPath(p) == PathJoin(ws[p], "package.json")

ManifestKeys(m) == {m[i][1] : i \in 1..Len(m)}

\* C17: the manifest written to the workspace is the serialization of exactly
\* repoData.packageJson when repoData carries one, and of the fixed default
\* manifest when repoData is absent or carries none.
C17_ManifestVerbatimOrDefault ==
  \A p \in Invocations :
    ManifestPath(p) \in DOMAIN files =>
      IF args[p].repositoryData.defined /\ args[p].repositoryData.hasPackageJson
      THEN /\ files[ManifestPath(p)] = JsonStringify(args[p].repositoryData.packageJson)
           /\ args[p].repositoryData.packageJson = RepoManifest
                => files[ManifestPath(p)]
                     = <<"{", "name", ":", "repo-app", ",", "version", ":", "2.0.0", "}">>
      ELSE /\ files[ManifestPath(p)] = JsonStringify(DefaultManifest)
           /\ {"scripts.start", "scripts.dev", "dependencies.express", "engines.node"}
                \subseteq ManifestKeys(DefaultManifest)

C17_Witness ==
  \E p \in Invocations :
    /\ args[p].repositoryData.hasPackageJson
    /\ ManifestPath(p) \in DOMAIN files
    /\ pc[p] = "build"

\* C20: when the workspace directory cannot be created, buildImage returns
\* success == false with the I/O error message; the validator is not
\* consulted, no builder runs, no fallback starts and the creation is not
\* retried.
C20_MkdirFailureIsFatal ==
  \A p \in Invocations :
    threw[p] = "mkdir" =>
      /\ pc[p] \in {"catch", "done"}
      /\ \A i \in 1..Len(trace[p]) : trace[p][i] \in {"idle", "mkdir", "catch"}
      /\ Cardinality({i \in 1..Len(trace[p]) : trace[p][i] = "mkdir"}) = 1
      /\ fbResult[p] = Pending
      /\ Done(p) => result[p] = [success |-> FALSE,
                                 error |-> IoError("mkdir ", ws[p])]

C20_Witness ==
  \E p \in Invocations :
    Done(p) /\ threw[p] = "mkdir" /\ ws[p] \notin dirs

Called(p) == pc[p] # "idle"

\* Directories in which an invocation wrote a file or ran the builder.
WorkedIn(p) == {e[2] : e \in {t \in touched[p] : t[1] \in {"write", "build"}}}

Created(p) == {e[2] : e \in {t \in touched[p] : t[1] = "mkdir"}}

\* C12: the fallback creates a workspace directory of its own, distinct from
\* the primary attempt's workspace, before it writes the fallback build file,
\* and writes and builds only inside it.
C12_FallbackCreatesOwnWorkspace ==
  \A p \in Invocations :
    InTrace(p, "fb_write") =>
      \E d \in Created(p) :
        /\ d # ws[p]
        /\ WorkedIn(p) \subseteq {d}

\* Workspace paths of the attempts an invocation has started: the primary
\* attempt's and, once the fallback is entered, the fallback's.
AttemptDirs(p) ==
  {<<"primary", ws[p]>> : x \in {y \in {1} : Called(p)}}
  \cup {<<"fallback", FallbackDir(p)>> : x \in {y \in {1} : InvokedFallback(p)}}

\* C13: no two attempts, of the same or of different invocations, primary or
\* fallback, use the same workspace directory path.
C13_WorkspacePerAttempt ==
  \A p, q \in Invocations :
    \A a \in AttemptDirs(p), b \in AttemptDirs(q) :
      (<<p, a[1]>> # <<q, b[1]>>) => a[2] # b[2]

\* C14: two concurrent invocations with distinct build ids do not write,
\* build in or delete each other's directories; each returned artifact id is
\* the tag of the invocation's own build id, an image under that tag comes
\* from the invocation's own builder run, and a rejected build file gets the
\* result the fallback gives when run alone.
C14_DistinctBuildIdsIsolated ==
  \A p, q \in Invocations :
    (p # q /\ Called(p) /\ Called(q) /\ args[p].buildId # args[q].buildId) =>
      /\ \A e \in touched[p], f \in touched[q] :
           ~IsPrefix(e[2], f[2]) /\ ~IsPrefix(f[2], e[2])
      /\ \A f \in DOMAIN files :
           IsPrefix(ws[p], f) => ~IsPrefix(ws[q], f)
      /\ (Done(p) /\ result[p].success)
           => /\ result[p].imageId = <<"dockgen-ai", "-", args[p].buildId, ":latest">>
              /\ result[p].imageId \in images
      /\ <<"dockgen-ai", "-", args[p].buildId, ":latest">> \in images
           => /\ \E d \in {ws[p], FallbackDir(p)} : <<"build", d>> \in touched[p]
              /\ threw[p] \notin {"build_exit", "build_timeout",
                                   "fb_build_exit", "fb_build_timeout"}
      /\ (Done(p) /\ Rejected(p) /\ threw[p] # "mkdir")
           => result[p].success
                = FallbackAloneSucceeds(dirs, InitialImages, args[p].buildId, fbEnv[p])

C14_Witness ==
  \E p, q \in Invocations :
    /\ p # q /\ args[p].buildId # args[q].buildId
    /\ Done(p) /\ Done(q)
    /\ result[p].success /\ result[q].success
    /\ Rejected(p) /\ ~Rejected(q)

\* C16: once package.json is in the workspace, no run of the assembly steps
\* changes its bytes: after a second run, whatever descriptor that run is
\* given, the file holds exactly the bytes the first run left.
C16_ManifestBytesStable ==
  [][\A p \in Invocations :
       ManifestPath(p) \in DOMAIN files
         => /\ ManifestPath(p) \in DOMAIN files'
            /\ files'[ManifestPath(p)] = files[ManifestPath(p)]]_vars

\* The second run has finished with a descriptor that carries no manifest,
\* and the workspace still holds the caller's manifest of the first run.
C16_Witness ==
  \E p \in Invocations :
    /\ pc[p] = "build"
    /\ Runs(p) = 2
    /\ ~args[p].repositoryData.hasPackageJson
    /\ ManifestPath(p) \in DOMAIN files
    /\ files[ManifestPath(p)] = JsonStringify(RepoManifest)

\* C18: no registry operation throws; getImageInfo returns null when the
\* command fails or its output cannot be parsed, in particular for a name the
\* store does not hold; listImages returns the empty list and deleteImage
\* returns false when the command fails.
C18_RegistryOperationsNeverThrow ==
  /\ ~registry.threw
  /\ (registry.op = "getImageInfo" /\ ~registry.cmdOk) => registry.value = Null
  /\ (registry.op = "getImageInfo" /\ registry.stdout \in UnparsableOutputs)
       => registry.value = Null
  /\ (registry.op = "getImageInfo" /\ registry.name \notin images)
       => registry.value = Null
  /\ (registry.op = "listImages" /\ ~registry.cmdOk) => registry.value = <<>>
  /\ (registry.op = "deleteImage" /\ ~registry.cmdOk) => registry.value = FALSE

\* An inspection whose command succeeded printed a cut-short document.
C18_Witness ==
  /\ registry.op = "getImageInfo"
  /\ registry.cmdOk
  /\ registry.stdout = <<"[", "{", "Id", ":">>
  /\ registry.value = Null

\* C19: a listing whose command succeeded returns exactly the names of the
\* store that begin with the naming prefix; an empty store gives the empty
\* list.
C19_ListsExactlyPrefixedNames ==
  (registry.op = "listImages" /\ registry.cmdOk) =>
    /\ \A i \in 1..Len(registry.value) : IsPrefix(NamingPrefix, registry.value[i])
    /\ \A n \in images :
         IsPrefix(NamingPrefix, n)
           => \E i \in 1..Len(registry.value) : registry.value[i] = n
    /\ images = {} => registry.value = <<>>

\* Number of times an invocation left the given stage.
StageRuns(p, stage) ==
  Cardinality({i \in 1..Len(trace[p]) : trace[p][i] = stage})

\* C21: an invocation runs the builder at most once on the original build
\* file: once the primary builder run is over, whatever its outcome, the
\* invocation is never at that run again, and a builder run of the fallback
\* reads the fallback build file, not the original.
C21_OriginalBuiltAtMostOnce ==
  \A p \in Invocations :
    /\ StageRuns(p, "build") <= 1
    /\ InTrace(p, "build") => pc[p] # "build"
    /\ <<"build", FallbackDir(p)>> \in touched[p]
         => /\ files[PathJoin(FallbackDir(p), "Dockerfile")] = fallbackDockerfile
            /\ fallbackDockerfile # args[p].dockerfileContent

\* The primary builder run timed out and the invocation has returned.
C21_Witness ==
  \E p \in Invocations :
    /\ Done(p)
    /\ threw[p] = "build_timeout"
    /\ StageRuns(p, "build") = 1
    /\ ~result[p].success

\* The stages of the primary path in the order of the source text.
PrimaryOrder ==
  <<"idle", "mkdir", "validate", "writeDockerfile", "createDockerignore",
    "packageJson", "createSourceFiles", "build", "verify", "cleanup",
    "returnSuccess">>

PrimaryStages == {PrimaryOrder[i] : i \in 1..Len(PrimaryOrder)}

\* C22: the stages of an attempt complete one after the other in the order
\* of the primary path, none skipped and none repeated: files appear in the
\* workspace only after creation and validation, the builder starts only
\* after the four context files were handled, the lookup follows the builder,
\* the deletion follows the lookup and precedes the success result.
C22_StagesInOrder ==
  \A p \in Invocations :
    /\ \A i \in 1..Len(trace[p]) :
         trace[p][i] \in PrimaryStages
           => i <= Len(PrimaryOrder) /\ trace[p][i] = PrimaryOrder[i]
    /\ (\E f \in DOMAIN files : IsPrefix(ws[p], f) /\ Called(p))
         => InTrace(p, "mkdir") /\ InTrace(p, "validate")
    /\ (pc[p] = "build" \/ <<"build", ws[p]>> \in touched[p])
         => \A st \in MaterializationStages : InTrace(p, st)
    /\ (pc[p] = "verify" \/ (lookupTag[p] # <<>> /\ ~InvokedFallback(p)))
         => InTrace(p, "build")
    /\ (pc[p] = "cleanup" \/ <<"rm", ws[p]>> \in touched[p])
         => InTrace(p, "verify")
    /\ (Done(p) /\ result[p].success /\ ~InvokedFallback(p))
         => InTrace(p, "cleanup") /\ <<"rm", ws[p]>> \in touched[p]

\* A primary attempt went through all its stages and returned success.
C22_Witness ==
  \E p \in Invocations :
    /\ Done(p)
    /\ result[p].success
    /\ ~InvokedFallback(p)
    /\ trace[p] = PrimaryOrder

\* Files the build file's copy and install steps read from the context.
ContextFiles == {"Dockerfile", "package.json", "index.js"}

HoldsContext(dir) == \A f \in ContextFiles : PathJoin(dir, f) \in DOMAIN files

\* C23: whenever the builder is about to run, on the primary path and on the
\* fallback path, its context directory holds the build file, a package.json
\* and an index.js.
C23_BuildContextComplete ==
  \A p \in Invocations :
    /\ pc[p] = "build" => HoldsContext(ws[p])
    /\ pc[p] = "fb_build" => HoldsContext(FallbackDir(p))

\* Tags an invocation handed to the builder.
BuiltTags(p) == {e[2] : e \in {t \in touched[p] : t[1] = "tag"}}

\* C24: every builder run of an invocation, primary or fallback, tags the
\* image dockgen-ai-<buildId>:latest with the caller's build id, and the
\* lookup that follows queries that same tag.
C24_OneTagPerBuildId ==
  \A p \in Invocations :
    /\ \A t \in BuiltTags(p) : t = <<"dockgen-ai", "-", args[p].buildId, ":latest">>
    /\ (InTrace(p, "build") \/ InTrace(p, "fb_build")) => BuiltTags(p) # {}
    /\ lookupTag[p] # <<>> => BuiltTags(p) = {lookupTag[p]}

\* A fallback build was tagged and looked up.
C24_Witness ==
  \E p \in Invocations :
    /\ InTrace(p, "fb_verify")
    /\ lookupTag[p] = <<"dockgen-ai", "-", "b1", ":latest">>
    /\ BuiltTags(p) = {lookupTag[p]}

Verdict(p) == validateDockerfile(args[p].dockerfileContent)

NotUuid(token) == token \notin UUIDs

\* A result with the name of the invocation's own workspace taken out of the
\* error message.
ResultModuloWorkspace(r) ==
  IF r.success THEN r
  ELSE [success |-> FALSE, error |-> SelectSeq(r.error, NotUuid)]

C26_RegistryOutsidePipeline ==
  [][/\ registry' = registry
     /\ images \subseteq images'
     /\ \A p \in Invocations :
          /\ lookupTag'[p] \in {<<>>, <<"dockgen-ai", "-", args'[p].buildId, ":latest">>}
          /\ (pc'[p] = "done" /\ result'[p].success)
               => /\ lookupTag'[p] = <<"dockgen-ai", "-", args'[p].buildId, ":latest">>
                  /\ ~ImageMissing(lookupOut'[p])]_vars

\* An invocation returned success after its cleanup, its image is still in
\* the store and no registry operation was performed.
C26_Witness ==
  \E p \in Invocations :
    /\ Done(p)
    /\ result[p].success
    /\ <<"rm", ws[p]>> \in touched[p]
    /\ <<"dockgen-ai", "-", args[p].buildId, ":latest">> \in images
    /\ registry = NoRegistryCall

\* C27: every invocation that was called returns a result, after at most one
\* primary and at most one fallback builder run; once the fallback has
\* failed, the invocation only returns: no second fallback, no primary
\* attempt.
C27_TerminatesAfterAtMostTwoBuilds ==
  /\ [](\A p \in Invocations :
          /\ StageRuns(p, "build") <= 1
          /\ StageRuns(p, "fb_build") <= 1
          /\ StageRuns(p, "fb_write") <= 1
          /\ InvokedFallback(p) => ~InTrace(p, "build") /\ pc[p] \notin PrimaryStages
          /\ InTrace(p, "fb_catch") => pc[p] \in {"fb_returned", "done"}
          /\ Done(p) => "success" \in DOMAIN result[p])
  /\ \A p \in Invocations : Called(p) ~> Done(p)

\* The fallback failed and the invocation returned its failure.
C27_Witness ==
  \E p \in Invocations :
    /\ Done(p)
    /\ InTrace(p, "fb_catch")
    /\ StageRuns(p, "fb_build") = 1
    /\ ~result[p].success

DockerfilePath(p) == PathJoin(ws[p], "Dockerfile")

IndexPath(p) == PathJoin(ws[p], "index.js")

\* C28: a package.json or index.js that is in the workspace is never
\* rewritten; the Dockerfile and the .dockerignore are written by every run;
\* a run that repeats the build file of the run before it leaves every file
\* of the workspace as it was.
C28_OnlyIfAbsentPolicy ==
  [][\A p \in Invocations :
       Called(p) =>
         /\ \A f \in {ManifestPath(p), IndexPath(p)} :
              f \in DOMAIN files => f \in DOMAIN files' /\ files'[f] = files[f]
         /\ (pc[p] = "writeDockerfile" /\ pc'[p] = "createDockerignore")
              => files'[DockerfilePath(p)] = args[p].dockerfileContent
         /\ (pc[p] = "createDockerignore" /\ pc'[p] = "packageJson")
              => files'[PathJoin(ws[p], ".dockerignore")] = dockerignoreContent
         /\ ( /\ Runs(p) >= 2
              /\ DockerfilePath(p) \in DOMAIN files
              /\ files[DockerfilePath(p)] = args[p].dockerfileContent )
              => files' = files]_vars

\* The second run has finished: the workspace holds the build file of that
\* run, the manifest and the entry point of the first.
C28_Witness ==
  \E p \in Invocations :
    /\ pc[p] = "build"
    /\ Runs(p) = 2
    /\ HoldsContext(ws[p])
    /\ files[DockerfilePath(p)] = args[p].dockerfileContent
    /\ files[IndexPath(p)] = indexJsContent
    /\ files[ManifestPath(p)] = JsonStringify(DefaultManifest)
    /\ args[p].repositoryData.hasPackageJson

BothFailedPrefix == <<"Both original and fallback builds failed: ">>

\* What C29 says of the state an invocation is in.
FallbackNeedsItsDirectory(p) ==
  /\ FallbackDir(p) \notin Created(p)
  /\ <<"build", FallbackDir(p)>> \in touched[p] => FallbackDir(p) \in dirs
  /\ (Done(p) /\ InvokedFallback(p) /\ FallbackDir(p) \notin dirs)
       => /\ ~result[p].success
          /\ IsPrefix(BothFailedPrefix, result[p].error)
          /\ threw[p] = "fb_write"
          /\ <<"build", FallbackDir(p)>> \notin touched[p]
          /\ ~InTrace(p, "fb_build")

\* C29: no step of an invocation creates or removes <buildRoot>/<buildId>,
\* so the fallback finds it as it was at the call; the fallback runs the
\* builder only where that directory exists, and where it is absent the
\* write of the fallback Dockerfile fails and buildImage returns a failure
\* whose message starts with 'Both original and fallback builds failed: ',
\* without a builder run.
C29_FallbackNeedsExistingDirectory ==
  [][\A p \in Invocations :
       /\ Called(p) => (FallbackDir(p) \in dirs' <=> FallbackDir(p) \in dirs)
       /\ Called(p)' => FallbackNeedsItsDirectory(p)']_vars

\* A rejected build file whose <buildRoot>/<buildId> is absent: the fallback
\* failed at its write and the invocation returned the failure.
C29_Witness ==
  \E p \in Invocations :
    /\ Done(p)
    /\ InvokedFallback(p)
    /\ FallbackDir(p) \notin dirs
    /\ threw[p] = "fb_write"
    /\ ~result[p].success
    /\ IsPrefix(BothFailedPrefix, result[p].error)

\* C30: whatever the constructor's creation of the build root has done so
\* far (still pending, done, or failed), an invocation at its workspace
\* creation can complete it, and once it has, the workspace and the build
\* root exist.
C30_WorkspaceCreationNeedsNoRoot ==
  \A p \in Invocations :
    /\ pc[p] = "mkdir" => ENABLED (Mkdir(p) /\ pc'[p] = "validate")
    /\ pc[p] = "validate" => ws[p] \in dirs /\ buildDirectory \in dirs

\* The workspace was created while the constructor's creation of the build
\* root had not completed.
C30_Witness ==
  \E p \in Invocations :
    /\ pc[p] = "validate"
    /\ ctorPc = "mkdirPending"
    /\ ws[p] \in dirs
    /\ PathJoin(buildDirectory, "b1") \notin dirs

\* Contents requests processRepositoryFiles made for directories.
DirectoryRequests ==
  {i \in 1..Len(ghRequests) :
     /\ ghRequests[i].method = "GET"
     /\ ghRequests[i].kind = "contents"
     /\ ghRequests[i].path \notin {<<>>, DockerfilePathSegments}}

\* Number of levels the directory of a request lies below the root.
LevelOf(i) == Len(SplitOn(ghRequests[i].path, "/"))

\* C31: processRepositoryFiles never requests the contents of a directory
\* that lies more than 2 levels below the repository root.
C31_RecursionAtMostTwoLevels ==
  \A i \in DirectoryRequests : LevelOf(i) <= 2

\* Requests made by processRepositoryFiles, in the order they were made.
IsTraversalRequest(r) ==
  \/ r.kind = "download"
  \/ r.method = "GET" /\ r.kind = "contents"
       /\ r.path \notin {<<>>, DockerfilePathSegments}

TraversalRequests == SelectSeq(ghRequests, IsTraversalRequest)

IsFetched(r) == r.kind = "download" /\ r.status = 200

PathsOf(list) == [i \in 1..Len(list) |-> list[i].path]

RequestKindOf(item) == IF item.type = "file" THEN "download" ELSE "contents"

IsRequested(item) ==
  IF item.type = "file" THEN IsImportant(item.name) ELSE WithinDepthLimit(item.path)

\* A walk over a listing in listing order that consumes one request for
\* every important file and every directory within the limit, and walks the
\* listing of a directory whose request succeeded before it goes on; ok is
\* FALSE when the next request is not the one for the next item.
RECURSIVE WalkItems(_, _)
WalkItems(items, reqs) ==
  IF items = <<>> THEN [ok |-> TRUE, rest |-> reqs]
  ELSE LET item == Head(items)
       IN IF ~IsRequested(item) THEN WalkItems(Tail(items), reqs)
          ELSE IF reqs = <<>> THEN [ok |-> FALSE, rest |-> reqs]
          ELSE IF Head(reqs).path # item.path \/ Head(reqs).kind # RequestKindOf(item)
          THEN [ok |-> FALSE, rest |-> reqs]
          ELSE IF item.type = "dir" /\ Head(reqs).status = 200
          THEN LET sub == WalkItems(Listing(ghRemote, SplitOn(item.path, "/")),
                                    Tail(reqs))
               IN IF sub.ok THEN WalkItems(Tail(items), sub.rest) ELSE sub
          ELSE WalkItems(Tail(items), Tail(reqs))

TraversalReturned == ghPc = "extract" \/ (ghPc = "returned" /\ ghResult.op = "retrieve")

\* C32: a failed fetch of a file or of a subdirectory is not propagated and
\* does not end the traversal: no error is thrown once the traversal has
\* begun, when it returns every item of every listing reached has been
\* processed in listing order, and the returned list holds exactly the files
\* whose download succeeded, in that order.
C32_FailedFetchIsSkipped ==
  /\ ghPc = "traverse" => ghResult = NoGitHubResult
  /\ (ghResult.kind = "thrown" /\ ghResult.op = "retrieve") => TraversalRequests = <<>>
  /\ TraversalReturned =>
       /\ WalkItems(Listing(ghRemote, <<>>), TraversalRequests)
            = [ok |-> TRUE, rest |-> <<>>]
       /\ PathsOf(ghFiles) = PathsOf(SelectSeq(TraversalRequests, IsFetched))

\* The traversal returned after the download of package.json and the
\* request for a subdirectory had failed, and files were fetched after
\* the first failure.
C32_Witness ==
  /\ ghPc = "returned"
  /\ ghResult.op = "retrieve"
  /\ Len(TraversalRequests) >= 4
  /\ TraversalRequests[1].status = 500
  /\ \E i \in 2..Len(TraversalRequests) :
       TraversalRequests[i].kind = "contents" /\ TraversalRequests[i].status = 500
  /\ ghResult.value.files # <<>>

RetrieveThrew == ghResult.kind = "thrown" /\ ghResult.op = "retrieve"

LastRequest == ghRequests[Len(ghRequests)]

\* C33: retrieveRepositoryInformation ends with a descriptor or with an
\* Error; the message is 'Repository not found or access denied' after a
\* response 404, 'Invalid GitHub token' after a response 401, and
\* 'Failed to fetch repository: <cause>' after every other failure; a URL
\* without owner or repository name fails in that last way and no HTTP
\* request is made for it.
C33_RetrieveErrorMessages ==
  /\ ghPc = "returned" <=> ghResult.kind = "returned"
  /\ ghPc = "threw" <=> ghResult.kind = "thrown"
  /\ (ghResult.kind = "returned" /\ ghResult.op = "retrieve") =>
       /\ DOMAIN ghResult.value = {"name", "files", "manifest"}
       /\ \A i \in 1..Len(ghRequests) :
            ghRequests[i].kind \in {"repos", "contents"} /\ ghRequests[i].path = <<>>
              => ghRequests[i].status = 200
  /\ RetrieveThrew /\ ghRequests # <<>> =>
       /\ LastRequest.status # 200
       /\ LastRequest.status = 404 =>
            ghResult.message = <<"Repository not found or access denied">>
       /\ LastRequest.status = 401 =>
            ghResult.message = <<"Invalid GitHub token">>
       /\ LastRequest.status \notin {404, 401} =>
            ghResult.message
              = <<"Failed to fetch repository: ">> \o AxiosError(LastRequest.status).message
  /\ RetrieveThrew /\ ghRequests = <<>> =>
       /\ InvalidUrl(ghUrl)
       /\ ghResult.message
            = <<"Failed to fetch repository: ", "Invalid GitHub URL format">>
  /\ (ghResult.kind # "none" /\ ghResult.op = "retrieve" /\ InvalidUrl(ghUrl)) =>
       RetrieveThrew /\ ghRequests = <<>>

\* The listing of the repository root was answered with 404 after the
\* repository itself had been found.
C33_Witness ==
  /\ RetrieveThrew
  /\ Len(ghRequests) = 2
  /\ LastRequest.status = 404
  /\ ghResult.message = <<"Repository not found or access denied">>

\* The fetched list holds a package.json that JSON.parse rejects.
UnparsablePackageJson(fileList) ==
  /\ SelectSeq(fileList, IsPackageJson) # <<>>
  /\ ~JsonParse(ContentText(SelectSeq(fileList, IsPackageJson)[1].content)).ok

\* C34: a package.json that cannot be parsed does not fail the retrieval:
\* the descriptor is returned, with packageJson null and with empty
\* dependencies, devDependencies and scripts, and the manifest buildImage
\* writes for such a descriptor is the fixed default manifest.
C34_UnparsableManifestIsDropped ==
  /\ (ghPc = "extract" /\ UnparsablePackageJson(ghFiles)) =>
       ENABLED (ExtractPackageJson /\ ghResult'.kind = "returned")
  /\ (ghPc = "returned" /\ ghResult.op = "retrieve"
        /\ UnparsablePackageJson(ghResult.value.files)) =>
       /\ ghResult.value.manifest.packageJson = Null
       /\ ghResult.value.manifest.dependencies = <<>>
       /\ ghResult.value.manifest.devDependencies = <<>>
       /\ ghResult.value.manifest.scripts = <<>>
       /\ JsonStringify(createPackageJson(AsRepositoryData(ghResult.value)))
            = JsonStringify(DefaultManifest)

\* A descriptor was returned for a repository whose package.json is the
\* truncated document { name : .
C34_Witness ==
  /\ ghPc = "returned"
  /\ ghResult.op = "retrieve"
  /\ UnparsablePackageJson(ghResult.value.files)
  /\ ghRemote.manifest.text = <<"{", "name", ":">>
  /\ ghResult.value.manifest = NoManifestFields

\* Positions of the commit requests, each of which follows its lookup.
PutRequests == {i \in 1..Len(ghRequests) : ghRequests[i].method = "PUT"}

LookupBefore(i) == ghRequests[i - 1]

CommitEnded == ghResult.kind # "none" /\ ghResult.op = "commit"

\* C35 as stated: the commit request carries a sha exactly when the lookup
\* before it succeeded.
C35_ShaSentIffLookupSucceeded ==
  \A i \in PutRequests :
    ghRequests[i].sha # "none" <=> LookupBefore(i).status = 200

\* C35: the commit request carries the sha of the lookup's answer exactly
\* when the lookup succeeded and its answer describes a file; after a lookup
\* that failed, with whatever status, and after one answered with the
\* listing of a directory, the commit is attempted without sha; the
\* operation returns true exactly when the commit response status is 200 or
\* 201, false for another resolved status, and throws when the commit
\* request fails.
C35_ShaSentIffFileFound ==
  /\ \A i \in PutRequests :
       /\ ghRequests[i].sha # "none"
            <=> (LookupBefore(i).status = 200 /\ ghRemote.dockerfile = "file")
       /\ ghRequests[i].sha # "none" => ghRequests[i].sha = ExistingData(ghRemote).sha
  /\ (ghRequests # <<>> /\ LastRequest.path = DockerfilePathSegments
        /\ LastRequest.method = "GET") =>
       /\ ghPc = "putDockerfile"
       /\ ENABLED PutDockerfile
       /\ LastRequest.status # 200 => ghExisting = NoExisting
  /\ (CommitEnded /\ ghRequests # <<>>) =>
       /\ LastRequest.method = "PUT"
       /\ ghResult.kind = "returned" <=> LastRequest.status \in PutSuccessStatuses
       /\ ghResult.kind = "returned" =>
            (ghResult.value <=> LastRequest.status \in {200, 201})
       /\ ghResult.kind = "thrown" =>
            ghResult.message = CommitError(AxiosError(LastRequest.status))

\* The lookup failed with a server error, the commit was sent without sha
\* and answered 201, and true was returned.
C35_Witness ==
  /\ CommitEnded
  /\ Len(ghRequests) = 2
  /\ ghRequests[1].status = 500
  /\ ghRequests[2].sha = "none"
  /\ ghRequests[2].status = 201
  /\ ghResult = Returned("commit", TRUE)

====
